---- MODULE Spec2Model ----
(***************************************************************************)
(* Verification model of the baby-sleep-tracker fusion and control core:   *)
(* the cry onset/offset tracker, the notification dispatcher, the bounded  *)
(* deques, the debounce decorator and the sleep state evaluation, the      *)
(* diaper reminder and its polling loop, the control requests, the         *)
(* capture workers, the worker loops, the cry records of the event store   *)
(* and live's detection cycle.                                             *)
(*                                                                         *)
(* Each component has its own specification (SpecCry, SpecNotify, ...)     *)
(* over the shared VARIABLES; a component's Next leaves the variables of   *)
(* the other components unchanged.  Time is the value of time.time(),      *)
(* an integer number of seconds held in `now`.                             *)
(***************************************************************************)
EXTENDS Integers, Sequences, FiniteSets, TLC

VARIABLES
    now,                \* time.time()
    \* ---- CryTracker (backend/trackers/cry_tracker.py)
    is_crying,          \* self.is_crying
    consecutive_cry,    \* self.consecutive_cry
    consecutive_quiet,  \* self.consecutive_quiet
    cry_start_time,     \* self.cry_start_time
    cry_inputs,         \* the is_crying argument of every update call so far
    cry_events,         \* the value every update call so far returned
    cry_table,          \* the rows of the store's cry_events table, by rowid
    \* ---- NotificationDispatcher (backend/notifications/notifier.py)
    channels,           \* self.channels: the configured channels, in order
    cooldowns,          \* self.cooldowns: event_type -> last_sent_timestamp
    notifications_log,  \* the notifications_log table (the audit log)
    notify_calls,       \* what every finished notify call was given and did
    \* ---- concurrent callers of notify: each thread's locals and position
    n_pc, n_event, n_message, n_now, n_sent, n_outcome, n_from,
    \* ---- one of the program's deque(maxlen=N) buffers, on its own
    buf_name,           \* which buffer
    buf,                \* its content, oldest first; an item is its insertion number
    buf_pushed,         \* how many items have been appended to it
    buf_pc,             \* SleepDetector.live between consumer_q.pop() and .clear()
    buf_taken,          \* the item live's last pop() returned
    \* ---- SleepDetector
    eyes_open_q,        \* eye samples, 1 = open (or mouth open), 0 = closed
    awake_q,            \* awake votes, in units of 1/VoteScale
    movement_q,         \* wrist positions
    image_comparison_q, \* the last two blurred images (their brightness)
    eyes_open_state,
    is_awake,           \* the logged sleep state
    body_found,
    model_sees_baby,    \* "None", "True" or "False"
    allow_model_movement_votes,
    lock_model_use,
    blanket_model,      \* "svm", or "None" when load_model found no model
    debounce_t,         \* the closure variable t of each debounced method
    sleep_events,       \* the rows log_sleep_event has written
    vote_reasons,       \* the reason tags of the votes of the last frame
    frames,             \* history: frames processed
    sd_called,          \* history: debounced methods called in the last frame
    sd_ran,             \* history: those whose body ran
    sd_predicted,       \* history: what predict_proba gave in the last frame
    \* ---- DiaperTracker
    diaper_events,      \* timestamps of the rows of the diaper_events table
    last_reminder_time,
    diaper_checks,      \* history: the calls of check_reminder_needed
    rem_pc,             \* diaper_reminder_loop's position in its loop
    \* ---- the control requests of app.py and the worker inside _blanket_logic
    ctl_pc,             \* each request thread's position in its handler
    ctl_kind,           \* the request it is serving
    ctl_started,        \* history: requests started
    infer_pc,           \* the frame worker's position at lines 330-332
    blanket_runs,       \* history: times the worker went through lines 330-332
    \* ---- the capture workers (camera/rtsp_reader.py, camera/audio_reader.py)
    source_up,          \* the camera delivers its stream
    source_faults,      \* history: outages and failed FFmpeg starts so far
    video_pc,           \* _receive_rtsp's position
    audio_pc,           \* receive_audio's position
    video_pushed,       \* frames appended to frame_q
    audio_pushed,       \* chunks appended to audio_q
    \* ---- the worker loops: SleepDetector.live and main's process_audio
    loop_clock,         \* time.time() in milliseconds
    consumer_q,         \* the frame channel: frame numbers, oldest first
    frames_pushed,      \* history: frames the reader appended
    live_pc,            \* live's position in its loop
    live_wake,          \* when live's throttle sleep ends
    last_process_time,  \* live's local last_process_time
    cycle_started,      \* history: when live began to process its last frame
    cycle_ended,        \* history: when process_frame last returned
    live_raised,        \* history: what raised in live's last cycle
    audio_q,            \* the audio channel: chunk numbers, oldest first
    chunks_pushed,      \* history: chunks the audio reader appended
    cry_pc,             \* process_audio's position in its loop
    cry_wake,           \* when process_audio's backoff sleep ends
    cry_raised,         \* history: what raised in process_audio's last cycle
    \* ---- live's detection cycle and the focus region
    focus_set,          \* focus_bounding_box holds a region (x is not None)
    cropped_q,          \* cropped_raw_frame_q: cycle numbers, oldest first
    cycles              \* history: detection cycles run

cryVars == <<is_crying, consecutive_cry, consecutive_quiet, cry_start_time,
             cry_inputs, cry_events, cry_table>>

notifyVars == <<channels, cooldowns, notifications_log, notify_calls>>

threadVars == <<n_pc, n_event, n_message, n_now, n_sent, n_outcome, n_from>>

bufVars == <<buf_name, buf, buf_pushed, buf_pc, buf_taken>>

sleepVars ==
    <<eyes_open_q, awake_q, movement_q, image_comparison_q, eyes_open_state,
      is_awake, body_found, model_sees_baby, allow_model_movement_votes,
      lock_model_use, blanket_model, debounce_t, sleep_events, vote_reasons,
      frames,
      sd_called, sd_ran, sd_predicted>>

diaperVars == <<diaper_events, last_reminder_time, diaper_checks, rem_pc>>

controlVars == <<ctl_pc, ctl_kind, ctl_started, infer_pc, blanket_runs>>

captureVars == <<source_up, source_faults, video_pc, audio_pc, video_pushed, audio_pushed>>

liveVars ==
    <<consumer_q, frames_pushed, live_pc, live_wake, last_process_time, cycle_started,
      cycle_ended, live_raised>>

audioVars == <<audio_q, chunks_pushed, cry_pc, cry_wake, cry_raised>>

cycleVars == <<focus_set, cropped_q, cycles>>

loopVars == <<loop_clock, liveVars, audioVars, cycleVars>>

vars ==
    <<now, cryVars, notifyVars, threadVars, bufVars, sleepVars, diaperVars, controlVars,
      captureVars, loopVars>>

\* Python's None, where a time or a number is expected.
None == -1

(***************************************************************************)
(* CryTracker                                                              *)
(***************************************************************************)

\* Bounds of the cry tracker model.
MaxCryCalls == 9
MaxCryClock == 2

\* CryTracker.__init__ defaults.
onset_threshold == 3
offset_threshold == 5

\* CRY_CONFIDENCE_THRESHOLD in percent: classify_audio returns
\* (avg_score > threshold, avg_score).
CRY_CONFIDENCE_THRESHOLD == 60

\* Confidence scores (percent) the audio classifier may hand over.
ConfLevels == {0, 50, 70, 85, 90}

\* What update returns: None, ("cry_start", confidence) or ("cry_stop", duration).
NoEvent == [type |-> "none", value |-> 0]

CryEventOf(type, value) == [type |-> type, value |-> value]

\* consecutive_cry after a call (lines 39 and 53).
NextConsecutiveCry_NoReset(x, c) == IF x THEN c + 1 ELSE c

NextConsecutiveCry(x, c) == IF x THEN c + 1 ELSE 0

\* consecutive_quiet after a call (lines 40 and 52).
NextConsecutiveQuiet(x, q) == IF x THEN 0 ELSE q + 1

\* The onset condition of line 41, on the incremented counter.
OnsetReached_Late(crying, c) == ~crying /\ c > onset_threshold

OnsetReached(crying, c) == ~crying /\ c >= onset_threshold

\* The offset condition of line 54, on the incremented counter.
OffsetReached_Unguarded(crying, q) == q >= offset_threshold

OffsetReached(crying, q) == crying /\ q >= offset_threshold

CryInit ==
    /\ is_crying = FALSE
    /\ consecutive_cry = 0
    /\ consecutive_quiet = 0
    /\ cry_start_time = None
    /\ cry_inputs = << >>
    /\ cry_events = << >>
    /\ cry_table = << >>

\* CryDetector.get_intensity on a confidence in percent.
get_intensity_AtLeast(confidence) ==
    IF confidence >= 85 THEN "screaming"
    ELSE IF confidence >= 70 THEN "crying"
    ELSE "fussing"

get_intensity(confidence) ==
    IF confidence > 85 THEN "screaming"
    ELSE IF confidence > 70 THEN "crying"
    ELSE "fussing"

\* sqlite_store.log_cry_start: INSERT INTO cry_events (start_time, intensity).
log_cry_start(table, t, intensity) ==
    Append(table, [start_time |-> t, end_time |-> None,
                   duration_seconds |-> None, intensity |-> intensity])

OpenRows(table) == {i \in 1..Len(table) : table[i].end_time = None}

\* WHERE end_time IS NULL ORDER BY start_time DESC LIMIT 1: the open row
\* with the latest start_time (of two started at the same time, the one
\* inserted last).
LatestOpen_First(table) == 1

LatestOpen(table) ==
    CHOOSE i \in OpenRows(table) :
        \A j \in OpenRows(table) :
            \/ table[j].start_time < table[i].start_time
            \/ table[j].start_time = table[i].start_time /\ j <= i

\* sqlite_store.log_cry_end: UPDATE cry_events SET end_time, duration_seconds
\* on that row; no row is touched when none is open.
log_cry_end(table, t, duration) ==
    IF OpenRows(table) = {} THEN table
    ELSE [table EXCEPT ![LatestOpen(table)].end_time = t,
                       ![LatestOpen(table)].duration_seconds = duration]

\* CryTracker.update(is_crying, confidence) on the pair classify_audio
\* returned, as one of at most so many calls; stored tells whether the write
\* to the event store returns (it raises otherwise, leaving the table as it
\* was).
CryStep(most, conf, stored) ==
    /\ Len(cry_inputs) < most
    /\ LET x     == conf > CRY_CONFIDENCE_THRESHOLD
           cc    == NextConsecutiveCry(x, consecutive_cry)
           cq    == NextConsecutiveQuiet(x, consecutive_quiet)
           start == x /\ OnsetReached(is_crying, cc)
           stop  == ~x /\ OffsetReached(is_crying, cq)
       IN  /\ consecutive_cry' = cc
           /\ consecutive_quiet' = cq
           /\ is_crying' = IF start THEN TRUE ELSE IF stop THEN FALSE ELSE is_crying
           /\ cry_start_time' = IF start THEN now' ELSE cry_start_time
           /\ cry_inputs' = Append(cry_inputs, x)
           /\ cry_events' = Append(cry_events,
                  IF start THEN CryEventOf("cry_start", conf)
                  ELSE IF stop THEN CryEventOf("cry_stop", now' - cry_start_time)
                  ELSE NoEvent)
           /\ cry_table' =
                  IF start /\ stored
                  THEN log_cry_start(cry_table, now', get_intensity(conf))
                  ELSE IF stop /\ stored
                  THEN log_cry_end(cry_table, now', now' - cry_start_time)
                  ELSE cry_table

\* CryTracker.update(is_crying, confidence), called by process_audio with the
\* pair classify_audio returned.
CryUpdate(conf) ==
    /\ UNCHANGED now
    /\ CryStep(MaxCryCalls, conf, TRUE)

CryUpdateAny == \E conf \in ConfLevels : CryUpdate(conf)

\* Wall-clock time passes between two audio chunks.
CryTick ==
    /\ now < MaxCryClock
    /\ now' = now + 1
    /\ UNCHANGED cryVars

\* Bound of the cry tracker model with its store: chunks handled.
MaxStoreCalls == 16

\* AUDIO_CHUNK_SECONDS (config.py): the audio reader cuts the stream into
\* chunks of two seconds.
AUDIO_CHUNK_SECONDS == 2

\* Classifications of the chunks of a steady stream: quiet, just over the
\* threshold, loud.
StoreConfLevels == {50, 65, 90}

\* process_audio handles the next chunk of a steady stream, one chunk length
\* after the last.
CryChunk(conf) ==
    /\ now' = now + AUDIO_CHUNK_SECONDS
    /\ CryStep(MaxStoreCalls, conf, TRUE)

CryChunkAny == \E conf \in StoreConfLevels : CryChunk(conf)

(***************************************************************************)
(* NotificationDispatcher                                                  *)
(***************************************************************************)

\* Bounds of the dispatcher model: calls made, and clock ticks of half a
\* cooldown each.
MaxNotifyCalls == 3
MaxNotifyTicks == 2

\* NOTIFICATION_COOLDOWN_SECONDS (config.py), the default of self.cooldown_seconds.
NOTIFICATION_COOLDOWN_SECONDS == 300

HalfCooldown == NOTIFICATION_COOLDOWN_SECONDS \div 2

\* Event types main.py notifies, and the text it sends with each.
EventTypes == {"baby_crying", "diaper_reminder"}

MessageOf(et) ==
    IF et = "baby_crying" THEN "Baby is crying!" ELSE "No diaper change logged."

\* __init__ appends the channels whose credentials are configured, in this
\* order: every sub-list of <<pushover, telegram, webhook>>.
ChannelConfigs ==
    {<< >>, <<"pushover">>, <<"telegram">>, <<"webhook">>,
     <<"pushover", "telegram">>, <<"pushover", "webhook">>, <<"telegram", "webhook">>,
     <<"pushover", "telegram", "webhook">>}

\* What channel.send does for each configured channel during one call:
\* TRUE when it returns, FALSE when it raises.
Outcomes(chs) == [1..Len(chs) -> BOOLEAN]

\* Lines 58-63: the event type is cooling down at time t.
CooledDown_Inclusive(cd, et, t) == cd[et] # None /\ t - cd[et] <= NOTIFICATION_COOLDOWN_SECONDS

CooledDown(cd, et, t) == cd[et] # None /\ t - cd[et] < NOTIFICATION_COOLDOWN_SECONDS

\* Line 65: the timestamp the call read is stored before any channel is tried.
CooldownsAfter_NotStored(cd, et, t) == cd

CooldownsAfter(cd, et, t) == [cd EXCEPT ![et] = t]

\* sqlite_store.log_notification(event_type, channel.name, message, delivered).
AuditRecord(et, ch, msg, delivered) ==
    [event_type |-> et, channel |-> ch, message |-> msg, delivered |-> delivered]

\* Lines 68-75: the loop tries every channel; a send that raises is caught and
\* logged with delivered=False, one that returns is logged with delivered=True.
RECURSIVE AuditRecords_StopAtFailure(_, _, _, _)
AuditRecords_StopAtFailure(chs, outcome, et, msg) ==
    IF chs = << >> THEN << >>
    ELSE <<AuditRecord(et, Head(chs), msg, Head(outcome))>> \o
         (IF Head(outcome)
          THEN AuditRecords_StopAtFailure(Tail(chs), Tail(outcome), et, msg)
          ELSE << >>)

AuditRecords(chs, outcome, et, msg) ==
    [i \in 1..Len(chs) |-> AuditRecord(et, chs[i], msg, outcome[i])]

\* Lines 66-80: sent starts False and becomes True with every send that returns.
SentResult_AllChannels(chs, outcome) == \A i \in 1..Len(chs) : outcome[i]

SentResult_LastChannel(chs, outcome) == chs # << >> /\ outcome[Len(chs)]

SentResult(chs, outcome) == \E i \in 1..Len(chs) : outcome[i]

\* The record kept of a finished call: its arguments, the time it read, the
\* path it took, what the channels did, what it returned and where its audit
\* records start.
CallRecord(et, msg, t, suppressed, outcome, result, from) ==
    [event_type |-> et, message |-> msg, at |-> t, suppressed |-> suppressed,
     outcome |-> outcome, result |-> result, log_from |-> from]

NotifyInit(configs) ==
    /\ channels \in configs
    /\ cooldowns = [et \in EventTypes |-> None]
    /\ notifications_log = << >>
    /\ notify_calls = << >>

\* Two callers sharing one dispatcher, as process_audio and
\* diaper_reminder_loop do.
Threads == {1, 2}

ThreadInit ==
    /\ n_pc = [t \in Threads |-> "idle"]
    /\ n_event = [t \in Threads |-> "none"]
    /\ n_message = [t \in Threads |-> "none"]
    /\ n_now = [t \in Threads |-> None]
    /\ n_sent = [t \in Threads |-> FALSE]
    /\ n_outcome = [t \in Threads |-> << >>]
    /\ n_from = [t \in Threads |-> 0]

\* notify(event_type, message) run from entry to return by one caller.
Notify(et, msg, outcome) ==
    /\ Len(notify_calls) < MaxNotifyCalls
    /\ LET suppressed == CooledDown(cooldowns, et, now)
           sent       == SentResult(channels, outcome)
       IN  IF suppressed
           THEN /\ notify_calls' = Append(notify_calls,
                      CallRecord(et, msg, now, TRUE, << >>, FALSE, Len(notifications_log)))
                /\ UNCHANGED <<cooldowns, notifications_log>>
           ELSE /\ cooldowns' = CooldownsAfter(cooldowns, et, now)
                /\ notifications_log' =
                       notifications_log \o AuditRecords(channels, outcome, et, msg)
                /\ notify_calls' = Append(notify_calls,
                      CallRecord(et, msg, now, FALSE, outcome, sent, Len(notifications_log)))
    /\ UNCHANGED <<now, channels>>

NotifyAny ==
    \E et \in EventTypes, outcome \in Outcomes(channels) :
        Notify(et, MessageOf(et), outcome)

\* Wall-clock time passes between two calls: half a cooldown or a whole one.
NotifyTick ==
    \E d \in {HalfCooldown, NOTIFICATION_COOLDOWN_SECONDS} :
        /\ now + d <= MaxNotifyTicks * HalfCooldown
        /\ now' = now + d
        /\ UNCHANGED <<channels, cooldowns, notifications_log, notify_calls>>

(***************************************************************************)
(* notify run by concurrent callers, one statement group at a time         *)
(***************************************************************************)

\* Bound of the concurrent model: calls begun.
MaxConcurrentCalls == 2

InFlight == {t \in Threads : n_pc[t] # "idle"}

\* Line 57: the call starts and reads the clock.
NBegin(t, et) ==
    /\ n_pc[t] = "idle"
    /\ Len(notify_calls) + Cardinality(InFlight) < MaxConcurrentCalls
    /\ n_pc' = [n_pc EXCEPT ![t] = "check"]
    /\ n_event' = [n_event EXCEPT ![t] = et]
    /\ n_message' = [n_message EXCEPT ![t] = MessageOf(et)]
    /\ n_now' = [n_now EXCEPT ![t] = now]
    /\ n_sent' = [n_sent EXCEPT ![t] = FALSE]
    /\ n_outcome' = [n_outcome EXCEPT ![t] = << >>]
    /\ UNCHANGED <<n_from, now, notifyVars>>

NBeginAny == \E t \in Threads, et \in EventTypes : NBegin(t, et)

\* The call returns: the thread is idle again and its arguments are gone.
ReturnFrom(t) ==
    /\ n_pc' = [n_pc EXCEPT ![t] = "idle"]
    /\ n_event' = [n_event EXCEPT ![t] = "none"]
    /\ n_message' = [n_message EXCEPT ![t] = "none"]
    /\ n_now' = [n_now EXCEPT ![t] = None]

\* Lines 58-63: the cooldown check; a cooled-down call returns False here.
NCheck(t) ==
    /\ n_pc[t] = "check"
    /\ IF CooledDown(cooldowns, n_event[t], n_now[t])
       THEN /\ notify_calls' = Append(notify_calls,
                  CallRecord(n_event[t], n_message[t], n_now[t], TRUE, << >>, FALSE,
                             Len(notifications_log)))
            /\ ReturnFrom(t)
       ELSE /\ n_pc' = [n_pc EXCEPT ![t] = "store"]
            /\ UNCHANGED <<notify_calls, n_event, n_message, n_now>>
    /\ UNCHANGED <<n_sent, n_outcome, n_from, now, channels, cooldowns, notifications_log>>

NCheckAny == \E t \in Threads : NCheck(t)

\* Lines 65-66: the timestamp is stored and sent is cleared.
NStore(t) ==
    /\ n_pc[t] = "store"
    /\ cooldowns' = CooldownsAfter(cooldowns, n_event[t], n_now[t])
    /\ n_sent' = [n_sent EXCEPT ![t] = FALSE]
    /\ n_from' = [n_from EXCEPT ![t] = Len(notifications_log)]
    /\ n_pc' = [n_pc EXCEPT ![t] = "send"]
    /\ UNCHANGED <<n_event, n_message, n_now, n_outcome, now,
                   channels, notifications_log, notify_calls>>

NStoreAny == \E t \in Threads : NStore(t)

\* Lines 68-75: one turn of the loop, for the next channel.
NSend(t, ok) ==
    /\ n_pc[t] = "send"
    /\ Len(n_outcome[t]) < Len(channels)
    /\ notifications_log' = Append(notifications_log,
           AuditRecord(n_event[t], channels[Len(n_outcome[t]) + 1], n_message[t], ok))
    /\ n_sent' = [n_sent EXCEPT ![t] = n_sent[t] \/ ok]
    /\ n_outcome' = [n_outcome EXCEPT ![t] = Append(n_outcome[t], ok)]
    /\ UNCHANGED <<n_pc, n_event, n_message, n_now, n_from, now,
                   channels, cooldowns, notify_calls>>

NSendAny == \E t \in Threads, ok \in BOOLEAN : NSend(t, ok)

\* Lines 77-80: the loop is over and the call returns sent.
NReturn(t) ==
    /\ n_pc[t] = "send"
    /\ Len(n_outcome[t]) = Len(channels)
    /\ notify_calls' = Append(notify_calls,
           CallRecord(n_event[t], n_message[t], n_now[t], FALSE, n_outcome[t], n_sent[t],
                      n_from[t]))
    /\ ReturnFrom(t)
    /\ n_sent' = [n_sent EXCEPT ![t] = FALSE]
    /\ n_outcome' = [n_outcome EXCEPT ![t] = << >>]
    /\ n_from' = [n_from EXCEPT ![t] = 0]
    /\ UNCHANGED <<now, channels, cooldowns, notifications_log>>

NReturnAny == \E t \in Threads : NReturn(t)

(***************************************************************************)
(* The bounded buffers: collections.deque(maxlen=N)                        *)
(***************************************************************************)

\* Bound of the buffer model: appends made to the buffer.
MaxBufAppends == 32

\* Window sizes of config.py.
EYES_OPEN_Q_SIZE == 30
AWAKE_Q_SIZE == 15
MOVEMENT_Q_SIZE == 10

\* Channel sizes of create_frame_queues and main.
FRAME_Q_SIZE == 20
CROPPED_RAW_FRAME_Q_SIZE == 3
DEBUG_FRAME_Q_SIZE == 3
AUDIO_Q_SIZE == 10
IMAGE_COMPARISON_Q_SIZE == 2

Buffers ==
    {"eyes_open_q", "awake_q", "movement_q", "image_comparison_q",
     "frame_q", "cropped_raw_frame_q", "debug_frame_q", "audio_q"}

\* The maxlen each deque is created with.
Capacity(b) ==
    CASE b = "eyes_open_q"         -> EYES_OPEN_Q_SIZE
      [] b = "awake_q"             -> AWAKE_Q_SIZE
      [] b = "movement_q"          -> MOVEMENT_Q_SIZE
      [] b = "image_comparison_q"  -> IMAGE_COMPARISON_Q_SIZE
      [] b = "frame_q"             -> FRAME_Q_SIZE
      [] b = "cropped_raw_frame_q" -> CROPPED_RAW_FRAME_Q_SIZE
      [] b = "debug_frame_q"       -> DEBUG_FRAME_Q_SIZE
      [] b = "audio_q"             -> AUDIO_Q_SIZE

\* The buffers some code takes the oldest item from with popleft(): the eye
\* and movement windows when nothing is seen, the preview channels in the
\* video feed, the audio channel in process_audio.
PopleftBuffers ==
    {"eyes_open_q", "movement_q", "cropped_raw_frame_q", "debug_frame_q", "audio_q"}

\* deque(maxlen=n).append(x): a full deque drops its leftmost item.
DequeAppend_Unbounded(q, x, n) == Append(q, x)

DequeAppend(q, x, n) == IF Len(q) = n THEN Append(Tail(q), x) ELSE Append(q, x)

\* deque.popleft() and deque.pop() on a non-empty deque.
DequePopleft(q) == Tail(q)

DequePop(q) == SubSeq(q, 1, Len(q) - 1)

\* SleepDetector.__init__ puts one vote into awake_q; the others start empty.
BufInit(names) ==
    /\ buf_name \in names
    /\ buf = IF buf_name = "awake_q" THEN <<1>> ELSE << >>
    /\ buf_pushed = IF buf_name = "awake_q" THEN 1 ELSE 0
    /\ buf_pc = "idle"
    /\ buf_taken = 0

\* A producer appends the next item.
BufAppend ==
    /\ buf_pushed < MaxBufAppends
    /\ buf' = DequeAppend(buf, buf_pushed + 1, Capacity(buf_name))
    /\ buf_pushed' = buf_pushed + 1
    /\ UNCHANGED <<buf_name, buf_pc, buf_taken>>

\* A consumer takes the oldest item.
BufPopleft ==
    /\ buf_name \in PopleftBuffers
    /\ Len(buf) > 0
    /\ buf' = DequePopleft(buf)
    /\ UNCHANGED <<buf_name, buf_pushed, buf_pc, buf_taken>>

\* SleepDetector.live, lines 482-484: the newest frame is popped.
BufTakeNewest ==
    /\ buf_name = "frame_q"
    /\ buf_pc = "idle"
    /\ Len(buf) > 0
    /\ buf_taken' = buf[Len(buf)]
    /\ buf' = DequePop(buf)
    /\ buf_pc' = "clear"
    /\ UNCHANGED <<buf_name, buf_pushed>>

\* SleepDetector.live, line 486: whatever is in the channel now is dropped.
BufClear ==
    /\ buf_name = "frame_q"
    /\ buf_pc = "clear"
    /\ buf' = << >>
    /\ buf_pc' = "idle"
    /\ UNCHANGED <<buf_name, buf_pushed, buf_taken>>

(***************************************************************************)
(* The sleep detector: SleepDetector.process_frame and its debounced steps *)
(***************************************************************************)

\* Bound of the sleep detector model: frames processed.
MaxFrames == 2

\* Intervals of config.py, in seconds.
DEBOUNCE_WAKE_EVENT == 180
DEBOUNCE_WAKE_STATUS == 10
DEBOUNCE_VOTING == 1
DEBOUNCE_NO_EYES == 1
DEBOUNCE_NO_BODY == 1
DEBOUNCE_BLANKET == 1
DEBOUNCE_PERIODIC_CHECK == 5

\* Votes are kept in units of 1/60, the divisor _blanket_logic applies to
\* image_diff, so that every vote and the threshold are integers.
VoteScale == 60

\* AWAKE_THRESHOLD = 0.6, in vote units.
AWAKE_THRESHOLD == 36

EYES_AWAKE_VOTE_WEIGHT == 3

\* EYES_OPEN_VOTE_THRESHOLD = 0.75, in hundredths.
EYES_OPEN_VOTE_THRESHOLD == 75

MOVEMENT_STD_THRESHOLD == 30
BLANKET_IMAGE_DIFF_THRESHOLD == 75

\* The methods decorated with @_debounce, each with its own closure.
DebouncedMethods ==
    {"_throttled_handle_no_eyes", "_throttled_handle_no_body",
     "_awake_voting_logic", "_movement_voting_logic", "_blanket_logic",
     "_write_wakeness_event", "_set_wakeness_status",
     "_periodic_wakeness_check"}

Interval_EventTwice(m) ==
    IF m = "_throttled_handle_no_eyes" THEN DEBOUNCE_NO_EYES
    ELSE IF m = "_throttled_handle_no_body" THEN DEBOUNCE_NO_BODY
    ELSE IF m \in {"_awake_voting_logic", "_movement_voting_logic"} THEN DEBOUNCE_VOTING
    ELSE IF m = "_blanket_logic" THEN DEBOUNCE_BLANKET
    ELSE IF m = "_periodic_wakeness_check" THEN DEBOUNCE_PERIODIC_CHECK
    ELSE IF m = "_set_wakeness_status" THEN DEBOUNCE_WAKE_STATUS
    ELSE 2 * DEBOUNCE_WAKE_EVENT

Interval_EventAsStatus(m) ==
    IF m = "_throttled_handle_no_eyes" THEN DEBOUNCE_NO_EYES
    ELSE IF m = "_throttled_handle_no_body" THEN DEBOUNCE_NO_BODY
    ELSE IF m \in {"_awake_voting_logic", "_movement_voting_logic"} THEN DEBOUNCE_VOTING
    ELSE IF m = "_blanket_logic" THEN DEBOUNCE_BLANKET
    ELSE IF m = "_periodic_wakeness_check" THEN DEBOUNCE_PERIODIC_CHECK
    ELSE DEBOUNCE_WAKE_STATUS

Interval(m) ==
    CASE m = "_throttled_handle_no_eyes" -> DEBOUNCE_NO_EYES
      [] m = "_throttled_handle_no_body" -> DEBOUNCE_NO_BODY
      [] m = "_awake_voting_logic"       -> DEBOUNCE_VOTING
      [] m = "_movement_voting_logic"    -> DEBOUNCE_VOTING
      [] m = "_blanket_logic"            -> DEBOUNCE_BLANKET
      [] m = "_write_wakeness_event"     -> DEBOUNCE_WAKE_EVENT
      [] m = "_set_wakeness_status"      -> DEBOUNCE_WAKE_STATUS
      [] m = "_periodic_wakeness_check"  -> DEBOUNCE_PERIODIC_CHECK

\* _debounce.wrapped: the body runs if it never ran or the interval has
\* elapsed since t, the time it last returned.
DebounceOpen_NoInterval(t, time, seconds) == t = None \/ time - t >= 0

DebounceOpen(t, time, seconds) == t = None \/ time - t >= seconds

\* What a frame can show.
Faces == {"none", "open", "closed"}
Wrists == {0, 100}
Images == {0, 255}
Predictions == {"baby", "no_baby", "error"}

\* Time between two processed frames: less than a second, or one of the
\* debounce intervals.
FrameGaps == {0, DEBOUNCE_VOTING, DEBOUNCE_WAKE_STATUS, DEBOUNCE_WAKE_EVENT}

\* The sample _process_face_and_pose appends for a face: closed eyes with a
\* closed mouth count 0 ("closed"), open eyes or an open mouth count 1
\* ("open").
EyeSample(face) == IF face = "closed" THEN 0 ELSE 1

RECURSIVE SeqSum(_)
SeqSum(q) == IF q = << >> THEN 0 ELSE Head(q) + SeqSum(Tail(q))

RECURSIVE SeqSumSquares(_)
SeqSumSquares(q) ==
    IF q = << >> THEN 0 ELSE Head(q) * Head(q) + SeqSumSquares(Tail(q))

\* Successive appends to a deque(maxlen=n).
RECURSIVE DequeExtend(_, _, _)
DequeExtend(q, xs, n) ==
    IF xs = << >> THEN q
    ELSE DequeExtend(DequeAppend(q, Head(xs), n), Tail(xs), n)

\* avg = sum(eyes_open_q) / len(eyes_open_q); avg > EYES_OPEN_VOTE_THRESHOLD
EyesOpenVote_NotStrict(q) == 100 * SeqSum(q) >= EYES_OPEN_VOTE_THRESHOLD * Len(q)

EyesOpenVote(q) == 100 * SeqSum(q) > EYES_OPEN_VOTE_THRESHOLD * Len(q)

\* int(avg_std) >= MOVEMENT_STD_THRESHOLD, for wrists whose four coordinates
\* are equal: pstdev - 1 >= 30, that is variance >= 31^2.
Moving(q) ==
    Len(q) * SeqSumSquares(q) - SeqSum(q) * SeqSum(q)
        >= (MOVEMENT_STD_THRESHOLD + 1) * (MOVEMENT_STD_THRESHOLD + 1) * Len(q) * Len(q)

\* Mean absolute difference of the two images in image_comparison_q.
ImageDiff(iq) == IF iq[1] >= iq[2] THEN iq[1] - iq[2] ELSE iq[2] - iq[1]

\* avg_awake >= AWAKE_THRESHOLD, avg_awake = sum(awake_q) / len(awake_q)
AtLeastThreshold_SumNotAverage(q) == SeqSum(q) >= AWAKE_THRESHOLD

AtLeastThreshold(q) == SeqSum(q) >= AWAKE_THRESHOLD * Len(q)

\* log_sleep_event given "awake" whatever the transition.
SleepEvent_AlwaysAwake(wake_status, t, q, reasons) ==
    [state      |-> "awake",
     time       |-> t,
     confidence |-> <<SeqSum(q), Len(q)>>,
     reasons    |-> {reasons[i] : i \in 1..Len(reasons)}]

\* log_sleep_event taking no reasons.
SleepEvent_NoReasons(wake_status, t, q, reasons) ==
    [state      |-> IF wake_status THEN "awake" ELSE "asleep",
     time       |-> t,
     confidence |-> <<SeqSum(q), Len(q)>>,
     reasons    |-> {}]

\* log_sleep_event's row: the state, when, and the confidence sum/len.
SleepEvent(wake_status, t, q, reasons) ==
    [state      |-> IF wake_status THEN "awake" ELSE "asleep",
     time       |-> t,
     confidence |-> <<SeqSum(q), Len(q)>>,
     reasons    |-> {reasons[i] : i \in 1..Len(reasons)}]

\* get_awake_probability: sum(awake_q) / len(awake_q) as the pair of the sum
\* in vote units and the number of vote units it is divided by; 0.0 for an
\* empty window.
get_awake_probability(q) ==
    IF q = << >> THEN <<0, VoteScale>> ELSE <<SeqSum(q), VoteScale * Len(q)>>

SleepInit(models) ==
    /\ eyes_open_q = << >>
    /\ awake_q = <<0>>
    /\ movement_q = << >>
    /\ image_comparison_q = << >>
    /\ eyes_open_state = FALSE
    /\ is_awake = FALSE
    /\ body_found = FALSE
    /\ model_sees_baby = "None"
    /\ allow_model_movement_votes = FALSE
    /\ lock_model_use = FALSE
    /\ blanket_model \in models
    /\ debounce_t = [m \in DebouncedMethods |-> None]
    /\ sleep_events = << >>
    /\ vote_reasons = << >>
    /\ frames = 0
    /\ sd_called = {}
    /\ sd_ran = {}
    /\ sd_predicted = "not called"

\* _blanket_logic asks the model when its body runs, no body was found, the
\* model is not locked and there is a model.
ModelConsulted(t, pose) ==
    /\ DebounceOpen(debounce_t["_blanket_logic"], t, Interval("_blanket_logic"))
    /\ ~pose
    /\ ~lock_model_use
    /\ blanket_model # "None"

\* _process_face_and_pose, pose part: a found body appends its wrists.
MovementAfterPose(q, pose, wrists) ==
    IF pose THEN DequeAppend(q, wrists, MOVEMENT_Q_SIZE) ELSE q

\* _process_face_and_pose, face part: a face appends its sample; without a
\* face _throttled_handle_no_eyes, when its body runs, drops the oldest one.
EyesAfterFace(q, face, run_no_eyes) ==
    IF face # "none" THEN DequeAppend(q, EyeSample(face), EYES_OPEN_Q_SIZE)
    ELSE IF run_no_eyes /\ Len(q) > 0 THEN DequePopleft(q)
    ELSE q

\* _awake_voting_logic: len(q) > len(q) / 2, then the vote of the eye window.
EyesVoteCast_AlsoEmpty(run, eq) == run /\ 2 * Len(eq) >= Len(eq)

EyesVoteCast_NotDebounced(run, eq) == 2 * Len(eq) > Len(eq)

EyesVoteCast(run, eq) == run /\ 2 * Len(eq) > Len(eq)

EyesReasons(run, eq) ==
    IF EyesVoteCast(run, eq)
    THEN <<IF EyesOpenVote(eq) THEN "Eyes Open" ELSE "Eyes Closed">>
    ELSE << >>

AwakeAfterEyes(aq, run, eq) ==
    IF EyesVoteCast(run, eq)
    THEN DequeAppend(aq, IF EyesOpenVote(eq) THEN EYES_AWAKE_VOTE_WEIGHT * VoteScale ELSE 0,
                     AWAKE_Q_SIZE)
    ELSE aq

\* _movement_voting_logic: without a body the oldest wrists are dropped, with
\* more than five samples a vote is cast.
MovementAfterVoting(mq, run, pose) ==
    IF run /\ ~pose /\ Len(mq) > 0 THEN DequePopleft(mq) ELSE mq

MovementVoteCast_ZeroFilled(run, pose, mq) == run /\ (~pose \/ Len(mq) > 5)

MovementVoteCast(run, pose, mq) == run /\ pose /\ Len(mq) > 5

MovementReasons(run, pose, mq) ==
    IF MovementVoteCast(run, pose, mq)
    THEN <<IF Moving(mq) THEN "Moving" ELSE "Not moving">>
    ELSE << >>

AwakeAfterMovement(aq, run, pose, mq) ==
    IF MovementVoteCast(run, pose, mq)
    THEN DequeAppend(aq, IF Moving(mq) THEN VoteScale ELSE 0, AWAKE_Q_SIZE)
    ELSE aq

\* _blanket_logic: the image is kept, two images are compared once after the
\* model was asked, and the model votes when it is asked.
ImagesAfterBlanket(iq, run, img) ==
    IF run THEN DequeAppend(iq, img, IMAGE_COMPARISON_Q_SIZE) ELSE iq

Compared(run, iq, allow) == run /\ Len(iq) = 2 /\ allow

DiffVotes(compared, iq) ==
    IF compared /\ ImageDiff(iq) > BLANKET_IMAGE_DIFF_THRESHOLD
    THEN <<ImageDiff(iq)>> ELSE << >>

DiffReasons(compared, iq) ==
    IF compared /\ ImageDiff(iq) > BLANKET_IMAGE_DIFF_THRESHOLD
    THEN <<"Movement">> ELSE << >>

ModelReasons(consulted, pred, iq) ==
    IF ~consulted \/ pred = "error" THEN << >>
    ELSE IF pred = "no_baby" THEN <<"No baby present">>
    ELSE IF Len(iq) = 2 /\ ImageDiff(iq) < BLANKET_IMAGE_DIFF_THRESHOLD
         THEN <<"Baby present", "Baby not moving">> ELSE <<"Baby present">>

ModelVotes_PresentSilent(consulted, pred, iq) ==
    IF ~consulted \/ pred # "no_baby" THEN << >> ELSE <<VoteScale>>

ModelVotes(consulted, pred, iq) ==
    IF ~consulted \/ pred = "error" THEN << >>
    ELSE IF pred = "no_baby" THEN <<VoteScale>>
    ELSE IF Len(iq) = 2 /\ ImageDiff(iq) < BLANKET_IMAGE_DIFF_THRESHOLD
         THEN <<0, 0>> ELSE <<0>>

\* _set_wakeness_status: the transition it asks _write_wakeness_event for.
ToAwake_NoStateGuard(aq, awake) == Len(aq) > 0 /\ AtLeastThreshold(aq)

ToAwake(aq, awake) == Len(aq) > 0 /\ AtLeastThreshold(aq) /\ ~awake

ToAsleep_NoStateGuard(aq, awake) == Len(aq) > 0 /\ ~AtLeastThreshold(aq)

ToAsleep(aq, awake) == Len(aq) > 0 /\ ~AtLeastThreshold(aq) /\ awake

\* process_frame on one frame, t = time.time() during it: face and pose
\* detection, the three voting steps, the status evaluation with the state
\* transition it may write, and the periodic check; each step behind its
\* debounce.  Each intermediate value is bound once, in the order of the code.
ProcessFrame(dt, face, pose, wrists, img, pred) ==
    /\ \E t \in {now + dt} :
       \E open \in {[m \in DebouncedMethods |->
                        DebounceOpen(debounce_t[m], t, Interval(m))]} :
       \E run_no_body \in {~pose /\ open["_throttled_handle_no_body"]},
          run_no_eyes \in {face = "none" /\ open["_throttled_handle_no_eyes"]},
          mq1 \in {MovementAfterPose(movement_q, pose, wrists)} :
       \E eq1 \in {EyesAfterFace(eyes_open_q, face, run_no_eyes)} :
       \E aq2 \in {AwakeAfterEyes(awake_q, open["_awake_voting_logic"], eq1)},
          mq3 \in {MovementAfterVoting(mq1, open["_movement_voting_logic"], pose)},
          iq4 \in {ImagesAfterBlanket(image_comparison_q, open["_blanket_logic"], img)},
          consulted \in {ModelConsulted(t, pose)} :
       \E aq3 \in {AwakeAfterMovement(aq2, open["_movement_voting_logic"], pose, mq1)},
          compared \in {Compared(open["_blanket_logic"], iq4, allow_model_movement_votes)} :
       \E aq4 \in {DequeExtend(aq3, DiffVotes(compared, iq4) \o ModelVotes(consulted, pred, iq4),
                               AWAKE_Q_SIZE)} :
       \E reasons \in {EyesReasons(open["_awake_voting_logic"], eq1)
                        \o MovementReasons(open["_movement_voting_logic"], pose, mq1)
                        \o DiffReasons(compared, iq4)
                        \o ModelReasons(consulted, pred, iq4)} :
       \E to_awake \in {ToAwake(aq4, is_awake)},
          to_asleep \in {ToAsleep(aq4, is_awake)} :
       \E call_event \in {open["_set_wakeness_status"] /\ (to_awake \/ to_asleep)} :
       \E run_event \in {call_event /\ open["_write_wakeness_event"]} :
       \E called \in {{"_awake_voting_logic", "_movement_voting_logic", "_blanket_logic",
                       "_set_wakeness_status", "_periodic_wakeness_check"}
                      \cup (IF pose THEN {} ELSE {"_throttled_handle_no_body"})
                      \cup (IF face = "none" THEN {"_throttled_handle_no_eyes"} ELSE {})
                      \cup (IF call_event THEN {"_write_wakeness_event"} ELSE {})} :
          /\ now' = t
          /\ body_found' = pose
          /\ movement_q' = mq3
          /\ eyes_open_q' = eq1
          /\ eyes_open_state' =
                 IF EyesVoteCast(open["_awake_voting_logic"], eq1)
                 THEN EyesOpenVote(eq1) ELSE eyes_open_state
          /\ image_comparison_q' = iq4
          /\ allow_model_movement_votes' =
                 IF consulted /\ pred # "error" THEN TRUE
                 ELSE IF compared THEN FALSE
                 ELSE allow_model_movement_votes
          /\ model_sees_baby' =
                 IF ~consulted THEN model_sees_baby
                 ELSE IF pred = "error" THEN "None"
                 ELSE IF pred = "baby" THEN "True" ELSE "False"
          /\ awake_q' = aq4
          /\ vote_reasons' = reasons
          /\ is_awake' = IF run_event THEN to_awake ELSE is_awake
          /\ sleep_events' =
                 IF run_event
                 THEN Append(sleep_events, SleepEvent(to_awake, t, aq4, reasons))
                 ELSE sleep_events
          /\ sd_called' = called
          /\ sd_ran' = {m \in called : open[m]}
          /\ sd_predicted' = (IF consulted THEN pred ELSE "not called")
          /\ debounce_t' =
                 [m \in DebouncedMethods |->
                     IF m \in called /\ open[m] THEN t ELSE debounce_t[m]]
          /\ frames' = frames + 1
          /\ UNCHANGED <<lock_model_use, blanket_model>>

\* SleepDetector.live hands process_frame one frame after the other; the
\* clock starts with the first one.
ProcessFrameAny ==
    /\ frames < MaxFrames
    /\ \E dt \in (IF frames = 0 THEN {0} ELSE FrameGaps),
          face \in Faces, pose \in BOOLEAN, img \in Images :
          \E wrists \in (IF pose THEN Wrists ELSE {0}) :
              \E pred \in (IF ModelConsulted(now + dt, pose)
                           THEN Predictions ELSE {"baby"}) :
                  ProcessFrame(dt, face, pose, wrists, img, pred)

\* Bound of the eye window model: frames processed.
MaxEyeFrames == 6

\* Frames less than a second or a second apart, with or without a face and a
\* body, for a detector without a blanket model.
EyeFrameAny ==
    /\ frames < MaxEyeFrames
    /\ \E dt \in (IF frames = 0 THEN {0} ELSE {0, DEBOUNCE_VOTING}),
          face \in Faces, pose \in BOOLEAN :
          ProcessFrame(dt, face, pose, 0, 0, "baby")

\* Bound of the transition model: frames processed.
MaxEventFrames == 4

\* Time between two frames of the transition model: the status interval, the
\* event interval, and what is left of the event interval after a status
\* interval.
EventGaps ==
    {DEBOUNCE_WAKE_STATUS, DEBOUNCE_WAKE_EVENT - DEBOUNCE_WAKE_STATUS, DEBOUNCE_WAKE_EVENT}

\* A frame with a face and no body, the model seeing the baby.
EventFrameAny ==
    /\ frames < MaxEventFrames
    /\ \E dt \in (IF frames = 0 THEN {0} ELSE EventGaps),
          face \in {"open", "closed"}, img \in Images :
           ProcessFrame(dt, face, FALSE, 0, img, "baby")

\* Bound of the model of frames that keep coming: the time after which live
\* is no longer followed.
MaxFairClock == 450

\* Time between two frames that keep coming: half the event interval, or all
\* of it.
FairGaps == {90, DEBOUNCE_WAKE_EVENT}

\* live goes on processing frames: a face is in every frame, the crib does
\* not change and the classifier sees the baby.
FairFrameAny ==
    /\ now < MaxFairClock
    /\ \E dt \in (IF frames = 0 THEN {0} ELSE FairGaps),
          face \in {"open", "closed"} :
           ProcessFrame(dt, face, FALSE, 0, 0, "baby")

\* Bound of the movement model: frames processed.
MaxMoveFrames == 7

\* A frame without a face and with any body and wrists, less than a second or
\* a second after the frame before.
MoveFrameAny ==
    /\ frames < MaxMoveFrames
    /\ \E dt \in (IF frames = 0 THEN {0} ELSE {0, DEBOUNCE_VOTING}),
          pose \in BOOLEAN, wrists \in Wrists :
           /\ pose \/ wrists = 0
           /\ ProcessFrame(dt, "none", pose, wrists, 0, "baby")

(***************************************************************************)
(* The diaper tracker: DiaperTracker.check_reminder_needed                 *)
(***************************************************************************)

\* Bounds of the diaper model: checks made, changes logged while running,
\* and the clock in units of the cooldown.
MaxDiaperChecks == 3
MaxDiaperChanges == 1
MaxDiaperTicks == 3

DIAPER_REMINDER_HOURS == 4

\* total_seconds() / 3600
SecondsPerHour == 3600

\* What time.time() and datetime.now() read when the program starts; now
\* counts the seconds since then.
StartTime == 1000000

WallClock == StartTime + now

\* The diaper_events table as the program finds it: empty, or a last change
\* five hours, exactly four hours, or three hours and 55 minutes old.
InitialDiaperStores ==
    {<< >>,
     <<StartTime - 5 * SecondsPerHour>>,
     <<StartTime - 4 * SecondsPerHour>>,
     <<StartTime - 4 * SecondsPerHour + NOTIFICATION_COOLDOWN_SECONDS>>}

\* Seconds the clock advances between two diaper operations.
DiaperGaps ==
    {HalfCooldown, NOTIFICATION_COOLDOWN_SECONDS, NOTIFICATION_COOLDOWN_SECONDS + 1}

\* get_diaper_stats()["last_change"]: the row with the greatest timestamp.
LastChange(events) ==
    IF events = << >> THEN None
    ELSE CHOOSE t \in {events[i] : i \in 1..Len(events)} :
             \A i \in 1..Len(events) : events[i] <= t

\* hours_since >= self.reminder_hours
ReminderDue(seconds_since, reminder_hours) ==
    seconds_since >= reminder_hours * SecondsPerHour

\* (now - self.last_reminder_time) > NOTIFICATION_COOLDOWN_SECONDS
ReminderCooledDown(t, last) == t - last > NOTIFICATION_COOLDOWN_SECONDS

\* round(hours_since, 1), in tenths of an hour.
HoursRounded(seconds_since) == (10 * seconds_since + SecondsPerHour \div 2) \div SecondsPerHour

NoReminder == [reminder |-> FALSE, hours |-> 0]

Reminder(seconds_since) == [reminder |-> TRUE, hours |-> HoursRounded(seconds_since)]

\* What check_reminder_needed returns at time t.
ReminderResult(events, t, last_reminder, reminder_hours) ==
    IF LastChange(events) = None THEN NoReminder
    ELSE IF /\ ReminderDue(t - LastChange(events), reminder_hours)
            /\ ReminderCooledDown(t, last_reminder)
         THEN Reminder(t - LastChange(events))
         ELSE NoReminder

\* self.last_reminder_time = now, on the returning branch only.
LastReminderAfter_NotRecorded(result, t, last_reminder) == last_reminder

LastReminderAfter(result, t, last_reminder) ==
    IF result.reminder THEN t ELSE last_reminder

DiaperCheck(t, events, before, result) ==
    [time |-> t, last_change |-> LastChange(events), before |-> before,
     result |-> result]

DiaperInit(stores) ==
    /\ diaper_events \in stores
    /\ last_reminder_time = 0
    /\ diaper_checks = << >>
    /\ rem_pc = "check"

CheckReminderNeeded ==
    /\ Len(diaper_checks) < MaxDiaperChecks
    /\ \E result \in {ReminderResult(diaper_events, WallClock, last_reminder_time,
                                     DIAPER_REMINDER_HOURS)} :
          /\ last_reminder_time' = LastReminderAfter(result, WallClock, last_reminder_time)
          /\ diaper_checks' =
                 Append(diaper_checks,
                        DiaperCheck(WallClock, diaper_events, last_reminder_time, result))
    /\ UNCHANGED <<now, diaper_events>>

\* log_diaper_event: a row stamped datetime.now().
LogDiaperChange ==
    /\ Len(diaper_events) < MaxDiaperChanges + 1
    /\ diaper_events' = Append(diaper_events, WallClock)
    /\ UNCHANGED <<now, last_reminder_time, diaper_checks>>

DiaperTick ==
    /\ \E d \in DiaperGaps :
          /\ now + d <= MaxDiaperTicks * NOTIFICATION_COOLDOWN_SECONDS
          /\ now' = now + d
    /\ UNCHANGED <<diaper_events, last_reminder_time, diaper_checks>>

(***************************************************************************)
(* The control requests of app.py beside the worker in _blanket_logic      *)
(***************************************************************************)

\* Bounds of the control model: requests started, and times the worker goes
\* through the model-use lines of _blanket_logic.
MaxControlRequests == 3
MaxBlanketRuns == 2

\* Flask serves with threaded=True: every request has its own thread.
ControlThreads == {"request1", "request2"}

\* /setAIFocusRegion/<x,y,w,h>, /setAIFocusRegion/reset and
\* /retrainWithNewSample/<classification>.
ControlKinds == {"set", "reset", "sample"}

\* What retrain_from_images and retrain_with_new_sample return: a model, or
\* None.
RetrainResults == {"svm", "None"}

\* The detector's fields that neither a request nor lines 330-332 write.
detectorVars ==
    <<eyes_open_q, awake_q, movement_q, image_comparison_q, eyes_open_state,
      is_awake, model_sees_baby, allow_model_movement_votes, debounce_t,
      sleep_events, vote_reasons, frames, sd_called, sd_ran, sd_predicted>>

ControlInit ==
    /\ ctl_pc = [r \in ControlThreads |-> "idle"]
    /\ ctl_kind = [r \in ControlThreads |-> "reset"]
    /\ ctl_started = 0
    /\ infer_pc = "idle"
    /\ blanket_runs = 0

\* detector.lock_model_use = True, the first statement of both handlers.
SetLock(r, kind) ==
    /\ ctl_pc[r] = "idle"
    /\ ctl_started < MaxControlRequests
    /\ ctl_started' = ctl_started + 1
    /\ ctl_kind' = [ctl_kind EXCEPT ![r] = kind]
    /\ ctl_pc' = [ctl_pc EXCEPT ![r] = "locked"]
    /\ lock_model_use' = TRUE
    /\ UNCHANGED <<blanket_model, body_found, infer_pc, blanket_runs>>

\* set_ai_focus_region("reset"): the region is reset and the flag cleared.
ResetFocusRegion(r) ==
    /\ ctl_pc[r] = "locked"
    /\ ctl_kind[r] = "reset"
    /\ ctl_pc' = [ctl_pc EXCEPT ![r] = "idle"]
    /\ lock_model_use' = FALSE
    /\ UNCHANGED <<blanket_model, body_found, ctl_kind, ctl_started, infer_pc, blanket_runs>>

\* set_ai_focus_region: a region that does not parse raises outside any try,
\* and the handler ends without clearing the flag.
FocusRegionRejected(r) ==
    /\ ctl_pc[r] = "locked"
    /\ ctl_kind[r] = "set"
    /\ ctl_pc' = [ctl_pc EXCEPT ![r] = "idle"]
    /\ UNCHANGED <<lock_model_use, blanket_model, body_found, ctl_kind, ctl_started,
                   infer_pc, blanket_runs>>

\* retrain_with_new_sample: moving the sample raises, and the finally clause
\* is next.
MoveSampleFails(r) ==
    /\ ctl_pc[r] = "locked"
    /\ ctl_kind[r] = "sample"
    /\ ctl_pc' = [ctl_pc EXCEPT ![r] = "release"]
    /\ UNCHANGED <<lock_model_use, blanket_model, body_found, ctl_kind, ctl_started,
                   infer_pc, blanket_runs>>

\* The call of blanket_svm.retrain_from_images or retrain_with_new_sample
\* begins.
RetrainBegin(r) ==
    /\ ctl_pc[r] = "locked"
    /\ ctl_kind[r] \in {"set", "sample"}
    /\ ctl_pc' = [ctl_pc EXCEPT ![r] = "retraining"]
    /\ UNCHANGED <<lock_model_use, blanket_model, body_found, ctl_kind, ctl_started,
                   infer_pc, blanket_runs>>

\* The retraining returns (None also stands for an exception, which both
\* handlers catch) and a new model replaces the detector's.
RetrainEnd(r, new_model) ==
    /\ ctl_pc[r] = "retraining"
    /\ ctl_pc' = [ctl_pc EXCEPT ![r] = "release"]
    /\ blanket_model' = (IF new_model # "None" THEN new_model ELSE blanket_model)
    /\ UNCHANGED <<lock_model_use, body_found, ctl_kind, ctl_started, infer_pc, blanket_runs>>

\* detector.lock_model_use = False, the last statement before the return.
ReleaseLock(r) ==
    /\ ctl_pc[r] = "release"
    /\ ctl_pc' = [ctl_pc EXCEPT ![r] = "idle"]
    /\ lock_model_use' = FALSE
    /\ UNCHANGED <<blanket_model, body_found, ctl_kind, ctl_started, infer_pc, blanket_runs>>

\* _blanket_logic, lines 330-331: the worker tests body_found, the flag and
\* the model; when the test fails the model is not used in this frame.
BlanketGuard(found) ==
    /\ infer_pc = "idle"
    /\ blanket_runs < MaxBlanketRuns
    /\ body_found' = found
    /\ IF ~found /\ ~lock_model_use /\ blanket_model # "None"
       THEN infer_pc' = "call" /\ UNCHANGED blanket_runs
       ELSE infer_pc' = "idle" /\ blanket_runs' = blanket_runs + 1
    /\ UNCHANGED <<lock_model_use, blanket_model, ctl_pc, ctl_kind, ctl_started>>

\* Line 332: the call of blanket_model.predict_proba begins.
PredictBegin ==
    /\ infer_pc = "call"
    /\ infer_pc' = "predicting"
    /\ UNCHANGED <<lock_model_use, blanket_model, body_found, ctl_pc, ctl_kind,
                   ctl_started, blanket_runs>>

\* predict_proba returns (the votes that follow are ProcessFrame's).
PredictEnd ==
    /\ infer_pc = "predicting"
    /\ infer_pc' = "idle"
    /\ blanket_runs' = blanket_runs + 1
    /\ UNCHANGED <<lock_model_use, blanket_model, body_found, ctl_pc, ctl_kind, ctl_started>>

(***************************************************************************)
(* The capture workers: _receive_rtsp and receive_audio                    *)
(***************************************************************************)

\* Bounds of the capture model: outages and failed FFmpeg starts, and items
\* pushed by each worker.
MaxSourceFaults == 2
MaxCapturePushes == 2

CaptureInit ==
    /\ source_up = TRUE
    /\ source_faults = 0
    /\ video_pc = "start"
    /\ audio_pc = "start"
    /\ video_pushed = 0
    /\ audio_pushed = 0

\* The camera stops delivering, or delivers again.
SourceDown ==
    /\ source_up
    /\ source_faults < MaxSourceFaults
    /\ source_up' = FALSE
    /\ source_faults' = source_faults + 1
    /\ UNCHANGED <<video_pc, audio_pc, video_pushed, audio_pushed>>

SourceUp ==
    /\ ~source_up
    /\ source_up' = TRUE
    /\ UNCHANGED <<source_faults, video_pc, audio_pc, video_pushed, audio_pushed>>

\* _receive_rtsp: subprocess.Popen starts FFmpeg; when it raises, the except
\* clause logs and the function returns.
VideoStart(started) ==
    /\ video_pc = "start"
    /\ ~started => source_faults < MaxSourceFaults
    /\ video_pc' = (IF started THEN "reading" ELSE "ended")
    /\ source_faults' = (IF started THEN source_faults ELSE source_faults + 1)
    /\ UNCHANGED <<source_up, audio_pc, video_pushed, audio_pushed>>

\* _receive_rtsp's loop: a complete frame is appended to the channel; on an
\* incomplete one the loop is left, and with it the function.
VideoRead ==
    /\ video_pc = "reading"
    /\ source_up => video_pushed < MaxCapturePushes
    /\ video_pc' = (IF source_up THEN "reading" ELSE "ended")
    /\ video_pushed' = (IF source_up THEN video_pushed + 1 ELSE video_pushed)
    /\ UNCHANGED <<source_up, source_faults, audio_pc, audio_pushed>>

\* receive_audio: subprocess.Popen starts FFmpeg; when it raises, the except
\* clause logs and the backoff follows.
AudioStart(started) ==
    /\ audio_pc = "start"
    /\ ~started => source_faults < MaxSourceFaults
    /\ audio_pc' = (IF started THEN "reading" ELSE "backoff")
    /\ source_faults' = (IF started THEN source_faults ELSE source_faults + 1)
    /\ UNCHANGED <<source_up, video_pc, video_pushed, audio_pushed>>

\* receive_audio's inner loop: a complete chunk is appended to the channel;
\* on a short read the process is killed and the backoff follows.
AudioRead ==
    /\ audio_pc = "reading"
    /\ source_up => audio_pushed < MaxCapturePushes
    /\ audio_pc' = (IF source_up THEN "reading" ELSE "backoff")
    /\ audio_pushed' = (IF source_up THEN audio_pushed + 1 ELSE audio_pushed)
    /\ UNCHANGED <<source_up, source_faults, video_pc, video_pushed>>

\* receive_audio: time.sleep(5), then the outer loop starts FFmpeg again.
AudioBackoff ==
    /\ audio_pc = "backoff"
    /\ audio_pc' = "start"
    /\ UNCHANGED <<source_up, source_faults, video_pc, video_pushed, audio_pushed>>

(***************************************************************************)
(* The worker loops: SleepDetector.live and process_audio                  *)
(***************************************************************************)

\* Bounds of the model of both loops: frames and chunks pushed, and the
\* clock.
MaxLoopFrames == 1
MaxLoopChunks == 3
MaxLoopClock == 1250

\* Bounds of the model of live alone: frames pushed, and the clock.
MaxLiveFrames == 2
MaxLiveClock == 2500

\* time.time() when the program starts, in milliseconds: far from 0.0, the
\* first value of last_process_time.
LoopEpoch == 1000

\* Time passes in steps of a quarter of a second.
TickStep == 250

PROCESS_FPS == 2

\* The backoff sleeps of live and of process_audio, in milliseconds.
LiveBackoffSleep == 50
AudioBackoffSleep == 100

\* min_interval = 1.0 / PROCESS_FPS if PROCESS_FPS > 0 else 0.5, in
\* milliseconds.
MinInterval == IF PROCESS_FPS > 0 THEN 1000 \div PROCESS_FPS ELSE 500

\* What a call of process_frame comes to: the focus region is not set and it
\* is not called, it returns, or face.process, pose.process, predict_proba or
\* a write of the event store raises.
FrameOutcomes == {"bounds not set", "ok", "face", "pose", "model", "store"}

\* Confidence scores (percent) of the chunks of the loop model.
LoopConfLevels == {50, 90}

LoopInit ==
    /\ loop_clock = LoopEpoch
    /\ consumer_q = << >>
    /\ frames_pushed = 0
    /\ live_pc = "check"
    /\ live_wake = 0
    /\ last_process_time = 0
    /\ cycle_started = None
    /\ cycle_ended = None
    /\ live_raised = "none"
    /\ audio_q = << >>
    /\ chunks_pushed = 0
    /\ cry_pc = "check"
    /\ cry_wake = 0
    /\ cry_raised = "none"
    /\ focus_set = TRUE
    /\ cropped_q = << >>
    /\ cycles = 0

\* rtsp_reader: producer_q.append(img).
FramePush(most) ==
    /\ frames_pushed < most
    /\ frames_pushed' = frames_pushed + 1
    /\ consumer_q' = DequeAppend(consumer_q, frames_pushed + 1, FRAME_Q_SIZE)
    /\ UNCHANGED <<live_pc, live_wake, last_process_time, cycle_started, cycle_ended,
                   live_raised>>

\* live, line 482: if len(consumer_q) > 0, else the backoff sleep begins.
LiveCheck ==
    /\ live_pc = "check"
    /\ IF Len(consumer_q) > 0
       THEN live_pc' = "pop" /\ UNCHANGED live_wake
       ELSE live_pc' = "backoff" /\ live_wake' = loop_clock + LiveBackoffSleep
    /\ UNCHANGED <<consumer_q, frames_pushed, last_process_time, cycle_started,
                   cycle_ended, live_raised>>

\* live, lines 483-489: img = consumer_q.pop(); the IndexError of an empty
\* channel is caught and the backoff sleep follows.
LivePop ==
    /\ live_pc = "pop"
    /\ IF Len(consumer_q) > 0
       THEN /\ consumer_q' = DequePop(consumer_q)
            /\ live_pc' = "clear"
            /\ UNCHANGED live_wake
       ELSE /\ consumer_q' = consumer_q
            /\ live_pc' = "backoff"
            /\ live_wake' = loop_clock + LiveBackoffSleep
    /\ UNCHANGED <<frames_pushed, last_process_time, cycle_started, cycle_ended,
                   live_raised>>

\* live, line 486: consumer_q.clear().
LiveClear ==
    /\ live_pc = "clear"
    /\ consumer_q' = << >>
    /\ live_pc' = "throttle"
    /\ UNCHANGED <<frames_pushed, live_wake, last_process_time, cycle_started, cycle_ended,
                   live_raised>>

\* live, lines 488 and 491: time.sleep(0.05), then the loop starts again.
LiveBackoff ==
    /\ live_pc = "backoff"
    /\ loop_clock >= live_wake
    /\ live_pc' = "check"
    /\ UNCHANGED <<consumer_q, frames_pushed, live_wake, last_process_time, cycle_started,
                   cycle_ended, live_raised>>

\* live, lines 496-498: the time to sleep after elapsed milliseconds.
ThrottleSleep_None(elapsed) == 0

ThrottleSleep(elapsed) == IF elapsed < MinInterval THEN MinInterval - elapsed ELSE 0

\* live, lines 495-498: now = time.time(), and the sleep begins.
LiveThrottle ==
    /\ live_pc = "throttle"
    /\ live_wake' = loop_clock + ThrottleSleep(loop_clock - last_process_time)
    /\ live_pc' = "sleep"
    /\ UNCHANGED <<consumer_q, frames_pushed, last_process_time, cycle_started, cycle_ended,
                   live_raised>>

\* The sleep is over and the frame is cropped and handed to process_frame.
LiveWake ==
    /\ live_pc = "sleep"
    /\ loop_clock >= live_wake
    /\ live_pc' = "process"
    /\ cycle_started' = loop_clock
    /\ UNCHANGED <<consumer_q, frames_pushed, live_wake, last_process_time, cycle_ended,
                   live_raised>>

\* live, lines 500-518: without a focus region the frame is only passed on;
\* otherwise process_frame runs (what it does to the detector is
\* ProcessFrame).  An exception of predict_proba is caught in _blanket_logic;
\* one of face.process, pose.process or the event store leaves process_frame
\* and live, which catch nothing, and the thread ends.
LiveProcess(outcome) ==
    /\ live_pc = "process"
    /\ live_raised' = (IF outcome \in {"bounds not set", "ok"} THEN "none" ELSE outcome)
    /\ IF outcome \in {"face", "pose", "store"}
       THEN /\ live_pc' = "dead"
            /\ UNCHANGED <<last_process_time, cycle_ended>>
       ELSE /\ live_pc' = (IF outcome = "bounds not set" THEN "check" ELSE "draw")
            /\ last_process_time' = loop_clock
            /\ cycle_ended' = loop_clock
    /\ UNCHANGED <<consumer_q, frames_pushed, live_wake, cycle_started>>

\* live, lines 520-522: the landmarks are drawn and the debug frame passed on.
LiveDraw ==
    /\ live_pc = "draw"
    /\ live_pc' = "check"
    /\ UNCHANGED <<consumer_q, frames_pushed, live_wake, last_process_time, cycle_started,
                   cycle_ended, live_raised>>

\* audio_reader: audio_q.append(chunk).
ChunkPush(most) ==
    /\ chunks_pushed < most
    /\ chunks_pushed' = chunks_pushed + 1
    /\ audio_q' = DequeAppend(audio_q, chunks_pushed + 1, AUDIO_Q_SIZE)
    /\ UNCHANGED <<cry_pc, cry_wake, cry_raised>>

\* process_audio, line 96: not audio_q.
AudioEmpty_Never(q) == FALSE

AudioEmpty(q) == Len(q) = 0

\* process_audio, lines 96-98: on an empty channel the backoff sleep begins.
CryCheck ==
    /\ cry_pc = "check"
    /\ IF AudioEmpty(audio_q)
       THEN cry_pc' = "backoff" /\ cry_wake' = loop_clock + AudioBackoffSleep
       ELSE cry_pc' = "popleft" /\ UNCHANGED cry_wake
    /\ UNCHANGED <<audio_q, chunks_pushed, cry_raised>>

\* process_audio, line 97: time.sleep(0.1), then the loop starts again.
CryBackoff ==
    /\ cry_pc = "backoff"
    /\ loop_clock >= cry_wake
    /\ cry_pc' = "check"
    /\ UNCHANGED <<audio_q, chunks_pushed, cry_wake, cry_raised>>

\* process_audio, line 100: chunk = audio_q.popleft(), which raises
\* IndexError on an empty deque; nothing catches it.
CryPopleft ==
    /\ cry_pc = "popleft"
    /\ IF Len(audio_q) > 0
       THEN /\ audio_q' = DequePopleft(audio_q)
            /\ cry_pc' = "classify"
            /\ cry_raised' = "none"
       ELSE /\ audio_q' = audio_q
            /\ cry_pc' = "dead"
            /\ cry_raised' = "IndexError"
    /\ UNCHANGED <<chunks_pushed, cry_wake>>

\* process_audio, line 101: classify_audio raises; nothing catches it.
CryClassifyRaises ==
    /\ cry_pc = "classify"
    /\ cry_pc' = "dead"
    /\ cry_raised' = "classifier"
    /\ UNCHANGED <<audio_q, chunks_pushed, cry_wake>>

\* process_audio, lines 101-118: classify_audio returns and update runs; when
\* update starts or stops a cry it sets is_crying and then writes the event
\* store, and a write that raises leaves update and process_audio.
CryHandle(conf, stored) ==
    /\ cry_pc = "classify"
    /\ UNCHANGED now
    /\ CryStep(MaxCryCalls, conf, stored)
    /\ IF cry_events'[Len(cry_events')] # NoEvent /\ ~stored
       THEN cry_pc' = "dead" /\ cry_raised' = "store"
       ELSE cry_pc' = "check" /\ cry_raised' = "none"
    /\ UNCHANGED <<audio_q, chunks_pushed, cry_wake>>

\* Time passes.
LoopTick(latest) ==
    /\ loop_clock < latest
    /\ loop_clock' = loop_clock + TickStep

(***************************************************************************)
(* live's detection cycle, with and without a focus region                 *)
(***************************************************************************)

\* Bound of the detection cycle model: cycles run.
MaxCycles == 3

\* live, lines 500 and 507: x, y, w, h = self.focus_bounding_box; x is None.
FocusRegionSet_Always(set) == TRUE

FocusRegionSet(set) == set

\* live, lines 500-518, on the frame it took: without a focus region the
\* frame goes to cropped_raw_frame_q and the cycle is over; with one the
\* cropped frame goes there and process_frame runs on it.
DetectionCycle ==
    /\ cycles < MaxCycles
    /\ cycles' = cycles + 1
    /\ cropped_q' = DequeAppend(cropped_q, cycles + 1, CROPPED_RAW_FRAME_Q_SIZE)
    /\ UNCHANGED focus_set
    /\ IF FocusRegionSet(focus_set)
       THEN \E dt \in (IF frames = 0 THEN {0} ELSE {DEBOUNCE_VOTING}),
               face \in Faces, pose \in BOOLEAN :
               ProcessFrame(dt, face, pose, 0, 0, "baby")
       ELSE /\ now' = now + DEBOUNCE_VOTING
            /\ UNCHANGED sleepVars

\* set_ai_focus_region with a region: detector.set_focus_region(x, y, w, h).
CycleSetFocus ==
    /\ ~focus_set
    /\ focus_set' = TRUE
    /\ UNCHANGED <<now, sleepVars, cropped_q, cycles>>

\* set_ai_focus_region("reset"): detector.reset_focus_region().
CycleResetFocus ==
    /\ focus_set
    /\ focus_set' = FALSE
    /\ UNCHANGED <<now, sleepVars, cropped_q, cycles>>

(***************************************************************************)
(* main's diaper_reminder_loop                                             *)
(***************************************************************************)

\* time.sleep(300), line 153, and the time the sleep lasts: its length or a
\* second more.
ReminderPollSleep == 300

PollSleeps == {ReminderPollSleep, ReminderPollSleep + 1}

\* Bounds of the reminder loop model: the clock, in seconds, and the cries
\* notified meanwhile.
MaxReminderClock == 904
MaxCryNotifies == 1

\* The diaper_events table as the loop finds it: a last change five hours
\* old, or one that turns four hours old after one poll sleep.
ReminderStores ==
    {<<StartTime - 5 * SecondsPerHour>>,
     <<StartTime - 4 * SecondsPerHour + ReminderPollSleep>>}

\* Line 146: check_reminder_needed; a result goes on to notify, None to the
\* sleep.
ReminderCheck ==
    /\ rem_pc = "check"
    /\ CheckReminderNeeded
    /\ rem_pc' = IF diaper_checks'[Len(diaper_checks')].result.reminder
                 THEN "notify" ELSE "sleep"
    /\ UNCHANGED notifyVars

\* A second passes between the tracker's time.time() and the dispatcher's.
ReminderDelay ==
    /\ rem_pc = "notify"
    /\ now' = now + 1
    /\ rem_pc' = "notify late"
    /\ UNCHANGED <<diaper_events, last_reminder_time, diaper_checks, notifyVars>>

\* Lines 149-152: diaper_notifier.notify("diaper_reminder", ...).
ReminderNotify ==
    /\ rem_pc \in {"notify", "notify late"}
    /\ \E outcome \in Outcomes(channels) :
           Notify("diaper_reminder", MessageOf("diaper_reminder"), outcome)
    /\ rem_pc' = "sleep"
    /\ UNCHANGED <<diaper_events, last_reminder_time, diaper_checks>>

\* Line 153: time.sleep(300), then the next round.
ReminderSleep ==
    /\ rem_pc = "sleep"
    /\ \E d \in PollSleeps :
           /\ now + d <= MaxReminderClock
           /\ now' = now + d
    /\ rem_pc' = "check"
    /\ UNCHANGED <<diaper_events, last_reminder_time, diaper_checks, notifyVars>>

\* process_audio notifies a cry through the same dispatcher (main.py line
\* 140: diaper_notifier = notifier).
CryNotify ==
    /\ Cardinality({i \in 1..Len(notify_calls) :
                        notify_calls[i].event_type = "baby_crying"}) < MaxCryNotifies
    /\ \E outcome \in Outcomes(channels) :
           Notify("baby_crying", MessageOf("baby_crying"), outcome)
    /\ UNCHANGED diaperVars

\* POST /api/diaper logs a change while the loop runs.
ReminderLogChange ==
    /\ LogDiaperChange
    /\ UNCHANGED <<rem_pc, notifyVars>>

(***************************************************************************)
(* Specifications                                                          *)
(***************************************************************************)

\* Every component as constructed, with the given channel configurations.
InitAll(configs, bufs, models, stores) ==
    /\ now = 0
    /\ CryInit
    /\ NotifyInit(configs)
    /\ ThreadInit
    /\ BufInit(bufs)
    /\ SleepInit(models)
    /\ DiaperInit(stores)
    /\ ControlInit
    /\ CaptureInit
    /\ LoopInit

\* The cry tracker fed by process_audio.
CryNext ==
    \/ CryUpdateAny /\ UNCHANGED <<notifyVars, threadVars, bufVars, sleepVars, diaperVars, controlVars, captureVars, loopVars>>
    \/ CryTick /\ UNCHANGED <<notifyVars, threadVars, bufVars, sleepVars, diaperVars, controlVars, captureVars, loopVars>>

SpecCry == InitAll({<< >>}, {"frame_q"}, {"svm"}, {<< >>}) /\ [][CryNext]_vars

\* The cry tracker and the event store over a steady stream of chunks.
CryStoreNext ==
    \/ CryChunkAny /\ UNCHANGED <<notifyVars, threadVars, bufVars, sleepVars, diaperVars, controlVars, captureVars, loopVars>>

SpecCryStore == InitAll({<< >>}, {"frame_q"}, {"svm"}, {<< >>}) /\ [][CryStoreNext]_vars

\* The dispatcher called by one caller at a time.
NotifyNext ==
    \/ NotifyAny /\ UNCHANGED <<cryVars, threadVars, bufVars, sleepVars, diaperVars, controlVars, captureVars, loopVars>>
    \/ NotifyTick /\ UNCHANGED <<cryVars, threadVars, bufVars, sleepVars, diaperVars, controlVars, captureVars, loopVars>>

SpecNotify == InitAll(ChannelConfigs, {"frame_q"}, {"svm"}, {<< >>}) /\ [][NotifyNext]_vars

\* The dispatcher called by two threads whose calls may overlap.
NotifyConcNext ==
    \/ NBeginAny /\ UNCHANGED <<cryVars, bufVars, sleepVars, diaperVars, controlVars, captureVars, loopVars>>
    \/ NCheckAny /\ UNCHANGED <<cryVars, bufVars, sleepVars, diaperVars, controlVars, captureVars, loopVars>>
    \/ NStoreAny /\ UNCHANGED <<cryVars, bufVars, sleepVars, diaperVars, controlVars, captureVars, loopVars>>
    \/ NSendAny /\ UNCHANGED <<cryVars, bufVars, sleepVars, diaperVars, controlVars, captureVars, loopVars>>
    \/ NReturnAny /\ UNCHANGED <<cryVars, bufVars, sleepVars, diaperVars, controlVars, captureVars, loopVars>>
    \/ NotifyTick /\ UNCHANGED <<cryVars, threadVars, bufVars, sleepVars, diaperVars, controlVars, captureVars, loopVars>>

SpecNotifyConc == InitAll({<< >>, <<"pushover">>, <<"pushover", "telegram">>}, {"frame_q"}, {"svm"}, {<< >>}) /\ [][NotifyConcNext]_vars

\* One bounded buffer with its producer and its consumers interleaved.
BufNext ==
    \/ BufAppend /\ UNCHANGED <<now, cryVars, notifyVars, threadVars, sleepVars, diaperVars, controlVars, captureVars, loopVars>>
    \/ BufPopleft /\ UNCHANGED <<now, cryVars, notifyVars, threadVars, sleepVars, diaperVars, controlVars, captureVars, loopVars>>
    \/ BufTakeNewest /\ UNCHANGED <<now, cryVars, notifyVars, threadVars, sleepVars, diaperVars, controlVars, captureVars, loopVars>>
    \/ BufClear /\ UNCHANGED <<now, cryVars, notifyVars, threadVars, sleepVars, diaperVars, controlVars, captureVars, loopVars>>

SpecBuffers == InitAll({<< >>}, Buffers, {"svm"}, {<< >>}) /\ [][BufNext]_vars

\* The frame processor thread: SleepDetector.live calling process_frame.
SleepNext ==
    \/ ProcessFrameAny /\ UNCHANGED <<cryVars, notifyVars, threadVars, bufVars, diaperVars, controlVars, captureVars, loopVars>>

SpecSleep == InitAll({<< >>}, {"frame_q"}, {"svm", "None"}, {<< >>}) /\ [][SleepNext]_vars

\* The frame processor thread of a program that found no blanket model.
EyesNext ==
    \/ EyeFrameAny /\ UNCHANGED <<cryVars, notifyVars, threadVars, bufVars, diaperVars, controlVars, captureVars, loopVars>>

SpecEyes == InitAll({<< >>}, {"frame_q"}, {"None"}, {<< >>}) /\ [][EyesNext]_vars

\* The frame processor thread with frames far enough apart for transitions.
EventNext ==
    \/ EventFrameAny /\ UNCHANGED <<cryVars, notifyVars, threadVars, bufVars, diaperVars, controlVars, captureVars, loopVars>>

SpecEvents == InitAll({<< >>}, {"frame_q"}, {"svm"}, {<< >>}) /\ [][EventNext]_vars

\* The frame processor thread in front of a crib where no face shows.
MoveNext ==
    \/ MoveFrameAny /\ UNCHANGED <<cryVars, notifyVars, threadVars, bufVars, diaperVars, controlVars, captureVars, loopVars>>

\* The frame processor thread as long as frames keep coming: live's loop
\* never ends by itself, so a frame that can be processed is processed.
FairNext ==
    \/ FairFrameAny /\ UNCHANGED <<cryVars, notifyVars, threadVars, bufVars, diaperVars, controlVars, captureVars, loopVars>>

SpecFair ==
    /\ InitAll({<< >>}, {"frame_q"}, {"svm"}, {<< >>})
    /\ [][FairNext]_vars
    /\ WF_vars(FairNext)

SpecMove == InitAll({<< >>}, {"frame_q"}, {"None"}, {<< >>}) /\ [][MoveNext]_vars

\* The diaper reminder loop, with changes logged through the API meanwhile.
DiaperNext ==
    \/ CheckReminderNeeded /\ UNCHANGED <<rem_pc, cryVars, notifyVars, threadVars, bufVars, sleepVars, controlVars, captureVars, loopVars>>
    \/ LogDiaperChange /\ UNCHANGED <<rem_pc, cryVars, notifyVars, threadVars, bufVars, sleepVars, controlVars, captureVars, loopVars>>
    \/ DiaperTick /\ UNCHANGED <<rem_pc, cryVars, notifyVars, threadVars, bufVars, sleepVars, controlVars, captureVars, loopVars>>

SpecDiaper ==
    InitAll({<< >>}, {"frame_q"}, {"svm"}, InitialDiaperStores) /\ [][DiaperNext]_vars

\* diaper_reminder_loop with the tracker and the dispatcher it calls, beside
\* the cry thread's notifications and the API's diaper log.
ReminderNext ==
    \/ ReminderCheck /\ UNCHANGED <<cryVars, threadVars, bufVars, sleepVars, controlVars, captureVars, loopVars>>
    \/ ReminderDelay /\ UNCHANGED <<cryVars, threadVars, bufVars, sleepVars, controlVars, captureVars, loopVars>>
    \/ ReminderNotify /\ UNCHANGED <<cryVars, threadVars, bufVars, sleepVars, controlVars, captureVars, loopVars>>
    \/ ReminderSleep /\ UNCHANGED <<cryVars, threadVars, bufVars, sleepVars, controlVars, captureVars, loopVars>>
    \/ CryNotify /\ UNCHANGED <<cryVars, threadVars, bufVars, sleepVars, controlVars, captureVars, loopVars>>
    \/ ReminderLogChange /\ UNCHANGED <<cryVars, threadVars, bufVars, sleepVars, controlVars, captureVars, loopVars>>

\* live's detection cycles beside the API setting and resetting the focus
\* region.
CycleNext ==
    \/ DetectionCycle
        /\ UNCHANGED <<cryVars, notifyVars, threadVars, bufVars, diaperVars, controlVars,
                      captureVars, loop_clock, liveVars, audioVars>>
    \/ CycleSetFocus
        /\ UNCHANGED <<cryVars, notifyVars, threadVars, bufVars, diaperVars, controlVars,
                      captureVars, loop_clock, liveVars, audioVars>>
    \/ CycleResetFocus
        /\ UNCHANGED <<cryVars, notifyVars, threadVars, bufVars, diaperVars, controlVars,
                      captureVars, loop_clock, liveVars, audioVars>>

SpecCycle == InitAll({<< >>}, {"frame_q"}, {"None"}, {<< >>}) /\ [][CycleNext]_vars

SpecReminder ==
    InitAll({<<"webhook">>}, {"frame_q"}, {"svm"}, ReminderStores)
        /\ [][ReminderNext]_vars

\* The frame worker at the model-use lines of _blanket_logic beside two
\* request threads of the Flask server.
ControlNext ==
    \/ (\E r \in ControlThreads, kind \in ControlKinds : SetLock(r, kind))
        /\ UNCHANGED <<now, cryVars, notifyVars, threadVars, bufVars, detectorVars, diaperVars, captureVars, loopVars>>
    \/ (\E r \in ControlThreads : ResetFocusRegion(r))
        /\ UNCHANGED <<now, cryVars, notifyVars, threadVars, bufVars, detectorVars, diaperVars, captureVars, loopVars>>
    \/ (\E r \in ControlThreads : FocusRegionRejected(r))
        /\ UNCHANGED <<now, cryVars, notifyVars, threadVars, bufVars, detectorVars, diaperVars, captureVars, loopVars>>
    \/ (\E r \in ControlThreads : MoveSampleFails(r))
        /\ UNCHANGED <<now, cryVars, notifyVars, threadVars, bufVars, detectorVars, diaperVars, captureVars, loopVars>>
    \/ (\E r \in ControlThreads : RetrainBegin(r))
        /\ UNCHANGED <<now, cryVars, notifyVars, threadVars, bufVars, detectorVars, diaperVars, captureVars, loopVars>>
    \/ (\E r \in ControlThreads, new_model \in RetrainResults : RetrainEnd(r, new_model))
        /\ UNCHANGED <<now, cryVars, notifyVars, threadVars, bufVars, detectorVars, diaperVars, captureVars, loopVars>>
    \/ (\E r \in ControlThreads : ReleaseLock(r))
        /\ UNCHANGED <<now, cryVars, notifyVars, threadVars, bufVars, detectorVars, diaperVars, captureVars, loopVars>>
    \/ (\E found \in BOOLEAN : BlanketGuard(found))
        /\ UNCHANGED <<now, cryVars, notifyVars, threadVars, bufVars, detectorVars, diaperVars, captureVars, loopVars>>
    \/ PredictBegin
        /\ UNCHANGED <<now, cryVars, notifyVars, threadVars, bufVars, detectorVars, diaperVars, captureVars, loopVars>>
    \/ PredictEnd
        /\ UNCHANGED <<now, cryVars, notifyVars, threadVars, bufVars, detectorVars, diaperVars, captureVars, loopVars>>

SpecControl == InitAll({<< >>}, {"frame_q"}, {"svm", "None"}, {<< >>}) /\ [][ControlNext]_vars

\* The camera and the two capture threads.
CaptureNext ==
    \/ SourceDown
        /\ UNCHANGED <<now, cryVars, notifyVars, threadVars, bufVars, sleepVars, diaperVars, controlVars, loopVars>>
    \/ SourceUp
        /\ UNCHANGED <<now, cryVars, notifyVars, threadVars, bufVars, sleepVars, diaperVars, controlVars, loopVars>>
    \/ (\E started \in BOOLEAN : VideoStart(started))
        /\ UNCHANGED <<now, cryVars, notifyVars, threadVars, bufVars, sleepVars, diaperVars, controlVars, loopVars>>
    \/ VideoRead
        /\ UNCHANGED <<now, cryVars, notifyVars, threadVars, bufVars, sleepVars, diaperVars, controlVars, loopVars>>
    \/ (\E started \in BOOLEAN : AudioStart(started))
        /\ UNCHANGED <<now, cryVars, notifyVars, threadVars, bufVars, sleepVars, diaperVars, controlVars, loopVars>>
    \/ AudioRead
        /\ UNCHANGED <<now, cryVars, notifyVars, threadVars, bufVars, sleepVars, diaperVars, controlVars, loopVars>>
    \/ AudioBackoff
        /\ UNCHANGED <<now, cryVars, notifyVars, threadVars, bufVars, sleepVars, diaperVars, controlVars, loopVars>>

SpecCapture == InitAll({<< >>}, {"frame_q"}, {"svm"}, {<< >>}) /\ [][CaptureNext]_vars

\* The camera reader beside live, the audio reader beside process_audio, and
\* the clock.
LoopNext ==
    \/ FramePush(MaxLoopFrames)
        /\ UNCHANGED <<now, cryVars, notifyVars, threadVars, bufVars, sleepVars, diaperVars, controlVars,
                      captureVars, loop_clock, audioVars, cycleVars>>
    \/ LiveCheck
        /\ UNCHANGED <<now, cryVars, notifyVars, threadVars, bufVars, sleepVars, diaperVars, controlVars,
                      captureVars, loop_clock, audioVars, cycleVars>>
    \/ LivePop
        /\ UNCHANGED <<now, cryVars, notifyVars, threadVars, bufVars, sleepVars, diaperVars, controlVars,
                      captureVars, loop_clock, audioVars, cycleVars>>
    \/ LiveClear
        /\ UNCHANGED <<now, cryVars, notifyVars, threadVars, bufVars, sleepVars, diaperVars, controlVars,
                      captureVars, loop_clock, audioVars, cycleVars>>
    \/ LiveBackoff
        /\ UNCHANGED <<now, cryVars, notifyVars, threadVars, bufVars, sleepVars, diaperVars, controlVars,
                      captureVars, loop_clock, audioVars, cycleVars>>
    \/ LiveThrottle
        /\ UNCHANGED <<now, cryVars, notifyVars, threadVars, bufVars, sleepVars, diaperVars, controlVars,
                      captureVars, loop_clock, audioVars, cycleVars>>
    \/ LiveWake
        /\ UNCHANGED <<now, cryVars, notifyVars, threadVars, bufVars, sleepVars, diaperVars, controlVars,
                      captureVars, loop_clock, audioVars, cycleVars>>
    \/ (\E outcome \in FrameOutcomes : LiveProcess(outcome))
        /\ UNCHANGED <<now, cryVars, notifyVars, threadVars, bufVars, sleepVars, diaperVars, controlVars,
                      captureVars, loop_clock, audioVars, cycleVars>>
    \/ LiveDraw
        /\ UNCHANGED <<now, cryVars, notifyVars, threadVars, bufVars, sleepVars, diaperVars, controlVars,
                      captureVars, loop_clock, audioVars, cycleVars>>
    \/ ChunkPush(MaxLoopChunks)
        /\ UNCHANGED <<now, cryVars, notifyVars, threadVars, bufVars, sleepVars, diaperVars, controlVars,
                      captureVars, loop_clock, liveVars, cycleVars>>
    \/ CryCheck
        /\ UNCHANGED <<now, cryVars, notifyVars, threadVars, bufVars, sleepVars, diaperVars, controlVars,
                      captureVars, loop_clock, liveVars, cycleVars>>
    \/ CryBackoff
        /\ UNCHANGED <<now, cryVars, notifyVars, threadVars, bufVars, sleepVars, diaperVars, controlVars,
                      captureVars, loop_clock, liveVars, cycleVars>>
    \/ CryPopleft
        /\ UNCHANGED <<now, cryVars, notifyVars, threadVars, bufVars, sleepVars, diaperVars, controlVars,
                      captureVars, loop_clock, liveVars, cycleVars>>
    \/ CryClassifyRaises
        /\ UNCHANGED <<now, cryVars, notifyVars, threadVars, bufVars, sleepVars, diaperVars, controlVars,
                      captureVars, loop_clock, liveVars, cycleVars>>
    \/ (\E conf \in LoopConfLevels, stored \in BOOLEAN : CryHandle(conf, stored))
        /\ UNCHANGED <<now, notifyVars, threadVars, bufVars, sleepVars, diaperVars, controlVars,
                      captureVars, loop_clock, liveVars, cycleVars>>
    \/ LoopTick(MaxLoopClock)
        /\ UNCHANGED <<now, cryVars, notifyVars, threadVars, bufVars, sleepVars, diaperVars, controlVars,
                      captureVars, liveVars, audioVars, cycleVars>>

SpecLoops == InitAll({<< >>}, {"frame_q"}, {"svm"}, {<< >>}) /\ [][LoopNext]_vars

\* The camera reader beside live, and the clock.
LiveNext ==
    \/ FramePush(MaxLiveFrames)
        /\ UNCHANGED <<now, cryVars, notifyVars, threadVars, bufVars, sleepVars, diaperVars, controlVars,
                      captureVars, loop_clock, audioVars, cycleVars>>
    \/ LiveCheck
        /\ UNCHANGED <<now, cryVars, notifyVars, threadVars, bufVars, sleepVars, diaperVars, controlVars,
                      captureVars, loop_clock, audioVars, cycleVars>>
    \/ LivePop
        /\ UNCHANGED <<now, cryVars, notifyVars, threadVars, bufVars, sleepVars, diaperVars, controlVars,
                      captureVars, loop_clock, audioVars, cycleVars>>
    \/ LiveClear
        /\ UNCHANGED <<now, cryVars, notifyVars, threadVars, bufVars, sleepVars, diaperVars, controlVars,
                      captureVars, loop_clock, audioVars, cycleVars>>
    \/ LiveBackoff
        /\ UNCHANGED <<now, cryVars, notifyVars, threadVars, bufVars, sleepVars, diaperVars, controlVars,
                      captureVars, loop_clock, audioVars, cycleVars>>
    \/ LiveThrottle
        /\ UNCHANGED <<now, cryVars, notifyVars, threadVars, bufVars, sleepVars, diaperVars, controlVars,
                      captureVars, loop_clock, audioVars, cycleVars>>
    \/ LiveWake
        /\ UNCHANGED <<now, cryVars, notifyVars, threadVars, bufVars, sleepVars, diaperVars, controlVars,
                      captureVars, loop_clock, audioVars, cycleVars>>
    \/ (\E outcome \in FrameOutcomes : LiveProcess(outcome))
        /\ UNCHANGED <<now, cryVars, notifyVars, threadVars, bufVars, sleepVars, diaperVars, controlVars,
                      captureVars, loop_clock, audioVars, cycleVars>>
    \/ LiveDraw
        /\ UNCHANGED <<now, cryVars, notifyVars, threadVars, bufVars, sleepVars, diaperVars, controlVars,
                      captureVars, loop_clock, audioVars, cycleVars>>
    \/ LoopTick(MaxLiveClock)
        /\ UNCHANGED <<now, cryVars, notifyVars, threadVars, bufVars, sleepVars, diaperVars, controlVars,
                      captureVars, liveVars, audioVars, cycleVars>>

SpecLive == InitAll({<< >>}, {"frame_q"}, {"svm"}, {<< >>}) /\ [][LiveNext]_vars

(***************************************************************************)
(* Properties of the cry tracker                                           *)
(***************************************************************************)

\* The length of the run of value b that ends at position i of s.
RECURSIVE RunEnding(_, _, _)
RunEnding(s, i, b) ==
    IF i = 0 \/ s[i] # b THEN 0 ELSE 1 + RunEnding(s, i - 1, b)

CryEventTypes(evs) == [i \in 1..Len(evs) |-> evs[i].type]

\* A step that is one call of update.
IsCryUpdateStep == Len(cry_inputs') = Len(cry_inputs) + 1

Bit(n) == n = 1

SpecSequence == <<Bit(0), Bit(1), Bit(1), Bit(1), Bit(0), Bit(0), Bit(0), Bit(0), Bit(0)>>

SpecSequenceEvents ==
    <<"none", "none", "none", "cry_start", "none", "none", "none", "none", "cry_stop">>

\* C1: update returns cry_start exactly on the call where the tracker is quiet
\* and the run of consecutive positives reaches onset_threshold, cry_stop
\* exactly on the call where it is crying and the run of consecutive negatives
\* reaches offset_threshold, and nothing on every other call; the sequence
\* [0,1,1,1,0,0,0,0,0] gives cry_start on the 4th and cry_stop on the 9th call.
C1_EventsExactlyAtThresholds ==
    [][IsCryUpdateStep =>
          LET n == Len(cry_inputs')
              x == cry_inputs'[n]
              e == cry_events'[n].type
          IN  /\ e \in {"none", "cry_start", "cry_stop"}
              /\ (e = "cry_start") <=>
                     (~is_crying /\ x /\ RunEnding(cry_inputs', n, TRUE) = onset_threshold)
              /\ (e = "cry_stop") <=>
                     (is_crying /\ ~x /\ RunEnding(cry_inputs', n, FALSE) = offset_threshold)
              /\ (cry_inputs' = SpecSequence =>
                      CryEventTypes(cry_events') = SpecSequenceEvents)
      ]_vars

\* The spec's example sequence has been fed and produced its two events.
C1_Witness ==
    /\ cry_inputs = SpecSequence
    /\ CryEventTypes(cry_events) = SpecSequenceEvents
    /\ ~is_crying

\* C2: every update call increments exactly one of the two counters by one and
\* sets the other to zero, so at most one is non-zero and each equals the
\* length of the current run; a negative classification never opens a cry.
C2_CountersMutuallyExclusive ==
    [][IsCryUpdateStep =>
          LET n == Len(cry_inputs')
              x == cry_inputs'[n]
          IN  /\ x => consecutive_cry' = consecutive_cry + 1 /\ consecutive_quiet' = 0
              /\ ~x => /\ consecutive_quiet' = consecutive_quiet + 1
                       /\ consecutive_cry' = 0
                       /\ cry_events'[n].type # "cry_start"
                       /\ is_crying' => is_crying
              /\ consecutive_cry' = 0 \/ consecutive_quiet' = 0
              /\ consecutive_cry' = RunEnding(cry_inputs', n, TRUE)
              /\ consecutive_quiet' = RunEnding(cry_inputs', n, FALSE)
      ]_vars

\* Two positives, one negative, then two more positives: the positive counter
\* was reset by the single negative and no cry was opened by the four positives.
C2_Witness ==
    /\ cry_inputs = <<TRUE, TRUE, FALSE, TRUE, TRUE>>
    /\ consecutive_cry = 2
    /\ consecutive_quiet = 0
    /\ ~is_crying
    /\ \A i \in 1..Len(cry_events) : cry_events[i].type = "none"

(***************************************************************************)
(* Properties of the notification dispatcher                               *)
(***************************************************************************)

Calls == 1..Len(notify_calls)

\* The audit records written during call j, when calls do not overlap.
AuditOf(j) ==
    SubSeq(notifications_log, notify_calls[j].log_from + 1,
           IF j < Len(notify_calls) THEN notify_calls[j + 1].log_from
           ELSE Len(notifications_log))

\* Call i is the last call before j, for j's event type, that was not suppressed.
IsPreviousSent(i, j) ==
    /\ i < j
    /\ notify_calls[i].event_type = notify_calls[j].event_type
    /\ ~notify_calls[i].suppressed
    /\ \A k \in (i + 1)..(j - 1) :
           notify_calls[k].event_type = notify_calls[j].event_type
               => notify_calls[k].suppressed

SomeDelivered(j) == \E i \in DOMAIN notify_calls[j].outcome : notify_calls[j].outcome[i]

\* C3: a call made less than the cooldown after the previous non-suppressed
\* call for the same event type returns False, attempts no channel and writes
\* no audit record, whatever the channels did in that previous call.
C3_SuppressedWithinCooldown ==
    \A j \in Calls : \A i \in Calls :
        (IsPreviousSent(i, j)
            /\ notify_calls[j].at - notify_calls[i].at < NOTIFICATION_COOLDOWN_SECONDS)
        => /\ notify_calls[j].suppressed
           /\ notify_calls[j].result = FALSE
           /\ notify_calls[j].outcome = << >>
           /\ AuditOf(j) = << >>

\* A call all of whose channels failed, then a call for the same event type
\* half a cooldown later, which was suppressed: one attempt set in the log.
C3_Witness ==
    /\ Len(notify_calls) >= 2
    /\ Len(channels) >= 2
    /\ ~notify_calls[1].suppressed /\ ~SomeDelivered(1)
    /\ notify_calls[2].event_type = notify_calls[1].event_type
    /\ notify_calls[2].at - notify_calls[1].at = HalfCooldown
    /\ notify_calls[2].suppressed
    /\ Len(notifications_log) = Len(channels)

C4_CheckAndStoreAtomic ==
    \A i \in Calls : \A j \in Calls :
        (i < j /\ notify_calls[i].event_type = notify_calls[j].event_type
               /\ ~notify_calls[i].suppressed /\ ~notify_calls[j].suppressed)
        => \/ notify_calls[j].at - notify_calls[i].at >= NOTIFICATION_COOLDOWN_SECONDS
           \/ notify_calls[i].at - notify_calls[j].at >= NOTIFICATION_COOLDOWN_SECONDS

(***************************************************************************)
(* Properties of the bounded buffers                                       *)
(***************************************************************************)

IsAppendStep == buf_pushed' = buf_pushed + 1

IsFrameStep == frames' = frames + 1

VotingMethods == {"_awake_voting_logic", "_movement_voting_logic", "_blanket_logic"}

\* C9: the body of a debounced method runs on a call only if it never ran
\* before or at least its interval has passed since it last ran; a call
\* inside the interval runs nothing, leaves the method's timer and what the
\* body would write untouched, and is not made up for later: a body runs only
\* in a frame that calls it with the interval elapsed, and two logged
\* transitions are at least DEBOUNCE_WAKE_EVENT apart.
C9_DebouncedBodyRunsOnlyAfterInterval ==
    [][IsFrameStep =>
        /\ sd_ran' \subseteq sd_called'
        /\ \A m \in sd_ran' :
               /\ debounce_t[m] = None \/ now' - debounce_t[m] >= Interval(m)
               /\ debounce_t'[m] = now'
        /\ \A m \in DebouncedMethods \ sd_ran' : debounce_t'[m] = debounce_t[m]
        /\ Len(sleep_events') =
               Len(sleep_events) + (IF "_write_wakeness_event" \in sd_ran' THEN 1 ELSE 0)
        /\ "_write_wakeness_event" \notin sd_ran' =>
               is_awake' = is_awake /\ sleep_events' = sleep_events
        /\ "_set_wakeness_status" \notin sd_ran' =>
               "_write_wakeness_event" \notin sd_called'
        /\ VotingMethods \cap sd_ran' = {} => awake_q' = awake_q
        /\ "_awake_voting_logic" \notin sd_ran' => eyes_open_state' = eyes_open_state
        /\ "_blanket_logic" \notin sd_ran' =>
               /\ image_comparison_q' = image_comparison_q
               /\ allow_model_movement_votes' = allow_model_movement_votes
               /\ model_sees_baby' = model_sees_baby
        /\ \A i \in 1..(Len(sleep_events') - 1) :
               sleep_events'[i + 1].time - sleep_events'[i].time >= DEBOUNCE_WAKE_EVENT
      ]_vars

\* A transition to asleep was asked for inside the interval of
\* _write_wakeness_event and dropped: the logged state is still awake.
C9_Witness ==
    /\ "_write_wakeness_event" \in sd_called \ sd_ran
    /\ now - debounce_t["_write_wakeness_event"] < DEBOUNCE_WAKE_EVENT
    /\ is_awake
    /\ Len(sleep_events) = 1
    /\ ~AtLeastThreshold(awake_q)

LoggedStateChanges == is_awake' # is_awake \/ sleep_events' # sleep_events

\* C10 as stated: the logged sleep state changes only when the aggregate is
\* strictly on the other side of AWAKE_THRESHOLD; an aggregate equal to the
\* threshold causes no transition in either direction.
C10_ChangesOnlyStrictlyAcrossThreshold ==
    [][LoggedStateChanges =>
        IF is_awake'
        THEN SeqSum(awake_q') > AWAKE_THRESHOLD * Len(awake_q')
        ELSE SeqSum(awake_q') < AWAKE_THRESHOLD * Len(awake_q')
      ]_vars

\* C10 as amended: the logged sleep state changes to awake only when it was
\* not awake and the aggregate is at or above AWAKE_THRESHOLD, and to asleep
\* only when it was awake and the aggregate is strictly below it; the event
\* logged carries the new state and that aggregate.
C10_ChangesOnlyAtOrAcrossThreshold ==
    [][LoggedStateChanges =>
        /\ is_awake' # is_awake
        /\ sleep_events' = Append(sleep_events, sleep_events'[Len(sleep_events')])
        /\ sleep_events'[Len(sleep_events')].state = (IF is_awake' THEN "awake" ELSE "asleep")
        /\ sleep_events'[Len(sleep_events')].confidence = <<SeqSum(awake_q'), Len(awake_q')>>
        /\ IF is_awake'
           THEN SeqSum(awake_q') >= AWAKE_THRESHOLD * Len(awake_q')
           ELSE SeqSum(awake_q') < AWAKE_THRESHOLD * Len(awake_q')
      ]_vars

\* The transition to awake was just logged with the aggregate exactly at the
\* threshold.
C10_Witness ==
    /\ is_awake
    /\ Len(sleep_events) = 1
    /\ sleep_events[1].time = now
    /\ SeqSum(awake_q) = AWAKE_THRESHOLD * Len(awake_q)

StatusRuns == IsFrameStep /\ "_set_wakeness_status" \in sd_ran'

EventPermitted ==
    \/ debounce_t["_write_wakeness_event"] = None
    \/ now' - debounce_t["_write_wakeness_event"] >= DEBOUNCE_WAKE_EVENT

AggregateHigh == SeqSum(awake_q') >= AWAKE_THRESHOLD * Len(awake_q')

LoggedNow(state) ==
    sleep_events' = Append(sleep_events,
                           [state |-> state, time |-> now',
                            confidence |-> <<SeqSum(awake_q'), Len(awake_q')>>,
                            reasons |-> {vote_reasons'[i] : i \in 1..Len(vote_reasons')}])

\* C11: when the status evaluation runs and the transition debounce permits,
\* it logs awake if the aggregate is at or above AWAKE_THRESHOLD and the
\* logged state (is_awake) is not awake, logs asleep if the aggregate is below
\* it and the logged state is awake, and otherwise changes nothing.
C11_StatusRule ==
    [][StatusRuns /\ EventPermitted =>
        IF AggregateHigh /\ ~is_awake THEN is_awake' /\ LoggedNow("awake")
        ELSE IF ~AggregateHigh /\ is_awake THEN ~is_awake' /\ LoggedNow("asleep")
        ELSE is_awake' = is_awake /\ sleep_events' = sleep_events
      ]_vars

\* Awake was logged, and 180 s later asleep.
C11_Witness ==
    /\ Len(sleep_events) = 2
    /\ sleep_events[1].state = "awake"
    /\ sleep_events[2].state = "asleep"
    /\ ~is_awake

\* C12: before any transition is logged the state is unknown, so the first
\* evaluation logs an event whichever side of AWAKE_THRESHOLD the aggregate
\* is on: asleep below it, awake at or above it.
C12_FirstEvaluationLogs ==
    [][StatusRuns /\ sleep_events = << >> =>
        LoggedNow(IF AggregateHigh THEN "awake" ELSE "asleep")
      ]_vars

\* C13: an evaluation made in the state the aggregate asks for logs nothing
\* and leaves the state alone, whatever the debounce timers say; an awake
\* event is logged only from the state not awake and makes it awake, so while
\* the aggregate stays at or above AWAKE_THRESHOLD one awake event at most is
\* logged, and two successive events never carry the same state.
C13_Idempotent ==
    [][IsFrameStep =>
        /\ (is_awake /\ AggregateHigh) => (is_awake' /\ sleep_events' = sleep_events)
        /\ (~is_awake /\ ~AggregateHigh) => (~is_awake' /\ sleep_events' = sleep_events)
        /\ sleep_events' # sleep_events =>
               /\ Len(sleep_events') = Len(sleep_events) + 1
               /\ sleep_events'[Len(sleep_events')].state = "awake" => (~is_awake /\ is_awake')
        /\ \A i \in 1..(Len(sleep_events') - 1) :
               sleep_events'[i].state # sleep_events'[i + 1].state
      ]_vars

\* Awake is logged; both debounce intervals have passed, the status is
\* evaluated again with the aggregate still at or above the threshold, and
\* there is still one event.
C13_Witness ==
    /\ is_awake
    /\ Len(sleep_events) = 1
    /\ now - sleep_events[1].time >= DEBOUNCE_WAKE_EVENT
    /\ "_set_wakeness_status" \in sd_ran
    /\ AtLeastThreshold(awake_q)

(***************************************************************************)
(* Properties of the diaper tracker                                        *)
(***************************************************************************)

ReminderBefore(j) == \E i \in 1..(j - 1) : diaper_checks[i].result.reminder

\* last_reminder_time as the check after check j finds it.
LastReminderAfterCheck(j) ==
    IF j < Len(diaper_checks) THEN diaper_checks[j + 1].before ELSE last_reminder_time

\* C14: a check that finds the last change older than the threshold, with
\* no reminder fired before, returns a reminder and records its time; every
\* later check made less than the cooldown after a reminder returns none.
C14_OneReminderPerCooldown ==
    \A j \in 1..Len(diaper_checks) :
        /\ ( /\ diaper_checks[j].last_change # None
             /\ diaper_checks[j].time - diaper_checks[j].last_change
                    > DIAPER_REMINDER_HOURS * SecondsPerHour
             /\ ~ReminderBefore(j) )
           => /\ diaper_checks[j].result.reminder
              /\ LastReminderAfterCheck(j) = diaper_checks[j].time
        /\ \A i \in 1..(j - 1) :
               ( /\ diaper_checks[i].result.reminder
                 /\ diaper_checks[j].time - diaper_checks[i].time
                        < NOTIFICATION_COOLDOWN_SECONDS )
               => ~diaper_checks[j].result.reminder

\* Last change five hours ago: the first check returns a reminder, the
\* repeat at the same clock reading returns none.
C14_Witness ==
    /\ Len(diaper_checks) >= 2
    /\ diaper_checks[1].time - diaper_checks[1].last_change = 5 * SecondsPerHour
    /\ diaper_checks[1].result.reminder
    /\ diaper_checks[2].time = diaper_checks[1].time
    /\ ~diaper_checks[2].result.reminder
    /\ last_reminder_time = diaper_checks[1].time

\* C15: a check returns a reminder exactly when the time since the last
\* logged change is strictly more than the threshold and the cooldown has
\* passed since last_reminder_time; last_reminder_time changes only on a
\* check that returns a reminder.
C15_ReminderIffStrictlyOverdue ==
    \A j \in 1..Len(diaper_checks) :
        /\ diaper_checks[j].result.reminder <=>
               /\ diaper_checks[j].last_change # None
               /\ diaper_checks[j].time - diaper_checks[j].last_change
                      > DIAPER_REMINDER_HOURS * SecondsPerHour
               /\ diaper_checks[j].time - diaper_checks[j].before
                      > NOTIFICATION_COOLDOWN_SECONDS
        /\ ~diaper_checks[j].result.reminder =>
               LastReminderAfterCheck(j) = diaper_checks[j].before

(***************************************************************************)
(* Properties of the votes                                                 *)
(***************************************************************************)

EyeTags == {"Eyes Open", "Eyes Closed"}
MovementTags == {"Moving", "Not moving"}
OcclusionTags == {"Movement", "Baby present", "Baby not moving", "No baby present"}

\* The method that casts the votes carrying these tags.
VotingMethodOf(tags) ==
    IF tags = EyeTags THEN "_awake_voting_logic"
    ELSE IF tags = MovementTags THEN "_movement_voting_logic"
    ELSE "_blanket_logic"

\* Samples the signal with these tags appended in the frame just processed.
SamplesCast(tags) == Cardinality({i \in 1..Len(vote_reasons') : vote_reasons'[i] \in tags})

\* A signal appends samples only in a frame that finds its interval elapsed,
\* and then at most so many.
SamplesPerInterval(tags, most) ==
    /\ SamplesCast(tags) <= most
    /\ SamplesCast(tags) > 0 =>
           \/ debounce_t[VotingMethodOf(tags)] = None
           \/ now' - debounce_t[VotingMethodOf(tags)] >= Interval(VotingMethodOf(tags))

\* The samples of a frame are the ones appended to the aggregate window.
SamplesAppended ==
    Len(awake_q) + Len(vote_reasons') <= AWAKE_Q_SIZE =>
        /\ Len(awake_q') = Len(awake_q) + Len(vote_reasons')
        /\ SubSeq(awake_q', 1, Len(awake_q)) = awake_q

\* C16 as stated: within one debounce interval each signal (eye state,
\* movement, occlusion/presence) appends at most one sample to the aggregate
\* window.
C16_OneSamplePerSignal ==
    [][IsFrameStep =>
        /\ SamplesAppended
        /\ SamplesPerInterval(EyeTags, 1)
        /\ SamplesPerInterval(MovementTags, 1)
        /\ SamplesPerInterval(OcclusionTags, 1)
      ]_vars

\* C16 as amended: within one debounce interval the eye signal and the
\* movement signal append at most one sample each, and the occlusion/presence
\* step at most two.
C16_OneSamplePerSignalTwoForOcclusion ==
    [][IsFrameStep =>
        /\ SamplesAppended
        /\ Len(vote_reasons') =
               SamplesCast(EyeTags) + SamplesCast(MovementTags) + SamplesCast(OcclusionTags)
        /\ SamplesPerInterval(EyeTags, 1)
        /\ SamplesPerInterval(MovementTags, 1)
        /\ SamplesPerInterval(OcclusionTags, 2)
      ]_vars

\* One run of _blanket_logic appended two samples.
C16_Witness ==
    /\ Len(vote_reasons) >= 2
    /\ vote_reasons[Len(vote_reasons) - 1] = "Baby present"
    /\ vote_reasons[Len(vote_reasons)] = "Baby not moving"
    /\ awake_q[Len(awake_q) - 1] = 0
    /\ awake_q[Len(awake_q)] = 0
    /\ "_blanket_logic" \in sd_ran

\* C19: the eye vote is cast only when the eye window holds more than half
\* of EYES_OPEN_Q_SIZE samples; otherwise no eye vote is appended and no
\* reason tag recorded.
C19_EyeVoteOnlyWhenHalfFull ==
    [][IsFrameStep /\ 2 * Len(eyes_open_q') <= EYES_OPEN_Q_SIZE =>
        /\ SamplesCast(EyeTags) = 0
        /\ eyes_open_state' = eyes_open_state
      ]_vars

EyeVoteFires ==
    /\ IsFrameStep
    /\ "_awake_voting_logic" \in sd_ran'
    /\ Len(eyes_open_q') > 0

FractionOpenOverThreshold ==
    100 * SeqSum(eyes_open_q') > EYES_OPEN_VOTE_THRESHOLD * Len(eyes_open_q')

\* C20: when the eye vote fires, the sample it appends is
\* EYES_AWAKE_VOTE_WEIGHT if the fraction of open entries of the eye window is
\* strictly above EYES_OPEN_VOTE_THRESHOLD and 0 otherwise, and one eye reason
\* tag is recorded, the first of the frame.
C20_EyeVoteValue ==
    [][EyeVoteFires =>
        /\ SamplesCast(EyeTags) = 1
        /\ vote_reasons'[1] = (IF FractionOpenOverThreshold THEN "Eyes Open" ELSE "Eyes Closed")
        /\ awake_q'[Len(awake_q') - Len(vote_reasons') + 1] =
               (IF FractionOpenOverThreshold THEN EYES_AWAKE_VOTE_WEIGHT * VoteScale ELSE 0)
      ]_vars

\* Three open samples of four: the fraction equals the threshold and the
\* vote cast is 0.
C20_Witness ==
    /\ Len(eyes_open_q) = 4
    /\ SeqSum(eyes_open_q) = 3
    /\ "_awake_voting_logic" \in sd_ran
    /\ vote_reasons = <<"Eyes Closed">>
    /\ awake_q[Len(awake_q)] = 0

(***************************************************************************)
(* Properties of the frame channel                                         *)
(***************************************************************************)

IsTakeStep == buf_name = "frame_q" /\ buf_pc = "idle" /\ buf_pc' = "clear"

IsDrainStep == buf_name = "frame_q" /\ buf_pc = "clear" /\ buf_pc' = "idle"

\* C18: whatever the producer does meanwhile, the frame the consumer takes
\* is the most recently pushed one, every frame its take discards is older
\* than the frame taken, and no newer frame is thrown away.
C18_TakeDiscardsOnlyOlderFrames ==
    [][/\ IsTakeStep => buf_taken' = buf_pushed
       /\ IsDrainStep => \A i \in 1..Len(buf) : buf[i] < buf_taken
      ]_vars


(***************************************************************************)
(* Properties of the model-use flag                                        *)
(***************************************************************************)

Retraining == \E r \in ControlThreads : ctl_pc[r] = "retraining"

\* C17: however the frame worker and the control requests (set or reset the
\* focus region, submit a retraining sample) interleave, two overlapping
\* requests included, the occlusion classifier's inference never runs while a
\* retraining is in progress.
C17_NoInferenceWhileRetraining == ~(infer_pc = "predicting" /\ Retraining)

(***************************************************************************)
(* Properties of the movement vote                                         *)
(***************************************************************************)

\* C21: a frame in which no body is found appends no movement sample to the
\* aggregate window and records no movement reason; a frame with a body casts
\* the movement vote only when the movement window holds more than half of
\* MOVEMENT_Q_SIZE.
C21_MovementVoteNeedsBodyAndHalfWindow ==
    [][IsFrameStep =>
        /\ SamplesAppended
        /\ ~body_found' =>
               /\ SamplesCast(MovementTags) = 0
               /\ Len(awake_q) + Len(vote_reasons') <= AWAKE_Q_SIZE =>
                      Len(awake_q') = Len(awake_q) + SamplesCast(EyeTags) + SamplesCast(OcclusionTags)
        /\ SamplesCast(MovementTags) > 0 =>
               /\ body_found'
               /\ 2 * Len(movement_q') > MOVEMENT_Q_SIZE
      ]_vars

\* The movement vote cast on a window of six, the first size above half.
C21_Witness ==
    /\ body_found
    /\ Len(movement_q) = 6
    /\ "_movement_voting_logic" \in sd_ran
    /\ vote_reasons = <<"Moving">>
    /\ awake_q[Len(awake_q)] = VoteScale

(***************************************************************************)
(* Properties of the occlusion/presence vote                               *)
(***************************************************************************)

ModelTags == {"Baby present", "Baby not moving", "No baby present"}

\* The images of this run of _blanket_logic and the run before differ by less
\* than the threshold, or there is no image to compare with.
NoSufficientChange ==
    Len(image_comparison_q') = 2 => ImageDiff(image_comparison_q') < BLANKET_IMAGE_DIFF_THRESHOLD

\* The samples the frame appended after the first n of its samples.
LastSamples(n) ==
    SubSeq(awake_q', Len(awake_q') - Len(vote_reasons') + n + 1, Len(awake_q'))

\* C22 as stated: when the model reports the baby present and the frame
\* difference shows no sufficient change, the aggregate window is left
\* unchanged; when it reports the baby absent, one full awake vote is
\* appended.
C22_PresentAppendsNothing ==
    [][IsFrameStep /\ Len(awake_q) + Len(vote_reasons') <= AWAKE_Q_SIZE =>
        /\ sd_predicted' = "baby" /\ NoSufficientChange
               /\ SamplesCast(EyeTags) + SamplesCast(MovementTags) = 0
               => awake_q' = awake_q
        /\ sd_predicted' = "no_baby" =>
               /\ SamplesCast(ModelTags) = 1
               /\ LastSamples(Len(vote_reasons') - 1) = <<VoteScale>>
      ]_vars

\* C22 as amended: when the model reports the baby present, a sample of 0 is
\* appended, and a second sample of 0 when the difference to the image of the
\* run before is below the threshold; when it reports the baby absent, one
\* full awake vote is appended.
C22_PresentAppendsZeros ==
    [][IsFrameStep /\ Len(awake_q) + Len(vote_reasons') <= AWAKE_Q_SIZE =>
        /\ SamplesAppended
        /\ sd_predicted' = "baby" =>
               IF Len(image_comparison_q') = 2
                  /\ ImageDiff(image_comparison_q') < BLANKET_IMAGE_DIFF_THRESHOLD
               THEN /\ SamplesCast(ModelTags) = 2
                    /\ LastSamples(Len(vote_reasons') - 2) = <<0, 0>>
               ELSE /\ SamplesCast(ModelTags) = 1
                    /\ LastSamples(Len(vote_reasons') - 1) = <<0>>
        /\ sd_predicted' = "no_baby" =>
               /\ SamplesCast(ModelTags) = 1
               /\ LastSamples(Len(vote_reasons') - 1) = <<VoteScale>>
        /\ sd_predicted' \in {"not called", "error"} => SamplesCast(ModelTags) = 0
      ]_vars

\* The model saw the baby in two images that do not differ: two samples of 0
\* and nothing else were appended.
C22_Witness ==
    /\ sd_predicted = "baby"
    /\ Len(image_comparison_q) = 2
    /\ image_comparison_q[1] = image_comparison_q[2]
    /\ vote_reasons = <<"Baby present", "Baby not moving">>
    /\ Len(awake_q) >= 3
    /\ awake_q[Len(awake_q) - 1] = 0
    /\ awake_q[Len(awake_q)] = 0

\* C23: a frame in which a body is found or the model-use flag is set does not
\* call the occlusion classifier and adds no occlusion/presence sample of any
\* kind to the aggregate window; the worker does not wait for the flag.
C23_NoOcclusionVoteWithBodyOrLock ==
    [][IsFrameStep /\ (body_found' \/ lock_model_use) =>
        /\ sd_predicted' = "not called"
        /\ SamplesCast(OcclusionTags) = 0
      ]_vars

\* C24: every control request that set the model-use flag clears it when it
\* ends, on success and on every failure path, a malformed region included.
C24_RequestEndReleasesLock ==
    [][\A r \in ControlThreads :
           ctl_pc[r] # "idle" /\ ctl_pc'[r] = "idle" => ~lock_model_use'
      ]_vars


(***************************************************************************)
(* Properties of the logged transitions                                    *)
(***************************************************************************)

\* C25: any two logged sleep events are at least DEBOUNCE_WAKE_EVENT (180 s)
\* apart, however often the aggregate crosses the threshold in between.
C25_EventsAtLeastEventIntervalApart ==
    \A i, j \in 1..Len(sleep_events) :
        i < j => sleep_events[j].time - sleep_events[i].time >= DEBOUNCE_WAKE_EVENT

\* Two events exactly the interval apart, with a frame evaluated in between.
C25_Witness ==
    /\ Len(sleep_events) = 2
    /\ sleep_events[2].time - sleep_events[1].time = DEBOUNCE_WAKE_EVENT
    /\ sleep_events[1].state = "awake"
    /\ sleep_events[2].state = "asleep"
    /\ frames = 3

(***************************************************************************)
(* Properties of the capture workers                                       *)
(***************************************************************************)

\* C26: after a disconnect (an incomplete frame, a short read, an FFmpeg
\* error) a capture worker retries connecting without limit, with a fixed
\* backoff between attempts, and pushes again once the source is back: at any
\* time each worker is starting FFmpeg, reading or backing off, never ended.
C26_CaptureWorkersRetryForever ==
    /\ video_pc \in {"start", "reading", "backoff"}
    /\ audio_pc \in {"start", "reading", "backoff"}

(***************************************************************************)
(* Properties of the worker loops                                          *)
(***************************************************************************)

\* C27: an exception of a perception adapter (the face-landmark detector,
\* the pose estimator, the occlusion classifier, the audio classifier) is
\* caught where the adapter is called: it never ends the calling worker,
\* which goes on to its next cycle.
C27_AdapterExceptionsNeverEndWorker ==
    /\ live_raised \in {"face", "pose", "model"} => live_pc # "dead"
    /\ cry_raised = "classifier" => cry_pc # "dead"

\* C28: a write of the event store that fails during a sleep or cry
\* transition does not stop the worker, and the state machine in memory
\* still takes the transition: is_awake, or is_crying, is updated.
C28_StoreFailureKeepsWorkerAndTransition ==
    [][/\ live_pc = "process" /\ live_raised' = "store" =>
              /\ live_pc' # "dead"
              /\ is_awake' # is_awake
       /\ cry_pc = "classify" /\ cry_raised' = "store" =>
              /\ cry_pc' # "dead"
              /\ is_crying' # is_crying
      ]_vars

\* C29: in live and in process_audio, finding the channel empty never raises
\* an error, whatever the producers do meanwhile: the worker sleeps its
\* backoff and then looks again.
C29_EmptyChannelBacksOff ==
    [][/\ live_raised' # "IndexError"
       /\ cry_raised' # "IndexError"
       /\ live_pc \in {"check", "pop"} /\ Len(consumer_q) = 0 /\ live_pc' # live_pc =>
              /\ live_pc' = "backoff"
              /\ live_wake' = loop_clock + LiveBackoffSleep
       /\ cry_pc \in {"check", "popleft"} /\ Len(audio_q) = 0 /\ cry_pc' # cry_pc =>
              /\ cry_pc' = "backoff"
              /\ cry_wake' = loop_clock + AudioBackoffSleep
       /\ live_pc = "backoff" /\ live_pc' # live_pc =>
              live_pc' = "check" /\ loop_clock >= live_wake
       /\ cry_pc = "backoff" /\ cry_pc' # cry_pc =>
              cry_pc' = "check" /\ loop_clock >= cry_wake
      ]_vars

\* Both workers found their channels empty and sleep, and both producers
\* have pushed since.
C29_Witness ==
    /\ live_pc = "backoff"
    /\ cry_pc = "backoff"
    /\ Len(consumer_q) > 0
    /\ Len(audio_q) > 0
    /\ live_raised = "none"
    /\ cry_raised = "none"

\* C30: live begins to process a frame no sooner than the minimum interval
\* 1/PROCESS_FPS after the process_frame call of the cycle before returned,
\* however fast frames are pushed.
C30_CyclesAtLeastMinIntervalApart ==
    [][live_pc = "sleep" /\ live_pc' = "process" /\ cycle_ended # None =>
           /\ cycle_started' = loop_clock
           /\ cycle_started' - cycle_ended >= MinInterval
      ]_vars

\* A second cycle that began exactly the minimum interval after the first
\* one had ended, the moment its throttle sleep was over.
C30_Witness ==
    /\ live_pc = "process"
    /\ cycle_ended # None
    /\ cycle_started = cycle_ended + MinInterval
    /\ live_wake = cycle_started
    /\ frames_pushed = 2
(***************************************************************************)
(* Properties of the reasons a logged transition carries                   *)
(***************************************************************************)

EventLogged == IsFrameStep /\ Len(sleep_events') = Len(sleep_events) + 1

TagsOf(reasons) == {reasons[i] : i \in 1..Len(reasons)}

\* C31 as stated: every transition logs a SleepEvent with the reasons
\* accumulated since the previous transition (those of this cycle, and those
\* of the cycle before when it logged no transition), and the reason list is
\* empty right after the transition.
C31_EventCarriesAccumulatedReasonsThenClears ==
    [][EventLogged =>
        /\ TagsOf(vote_reasons') \subseteq sleep_events'[Len(sleep_events')].reasons
        /\ "_write_wakeness_event" \notin sd_ran =>
               TagsOf(vote_reasons) \subseteq sleep_events'[Len(sleep_events')].reasons
        /\ vote_reasons' = << >>
      ]_vars

\* C31 as amended: every transition logs a SleepEvent with the de-duplicated
\* reasons of the votes cast in the cycle of the transition, one reason for
\* each sample that cycle appended; the transition leaves the reason list as
\* it is, and the next cycle starts it afresh.
C31_EventCarriesCycleReasons ==
    [][IsFrameStep =>
        /\ SamplesAppended
        /\ EventLogged =>
               sleep_events'[Len(sleep_events')].reasons = TagsOf(vote_reasons')
      ]_vars

\* The first cycle cast votes and logged nothing; the second cycle saw
\* movement and logged the transition to awake with its own reasons, which
\* are still in the reason list.
C31_Witness ==
    /\ frames = 2
    /\ Len(sleep_events) = 1
    /\ sleep_events[1].time = now
    /\ "Movement" \in sleep_events[1].reasons
    /\ sleep_events[1].reasons = TagsOf(vote_reasons)
    /\ vote_reasons # << >>
(***************************************************************************)
(* Properties of the cry records in the event store                        *)
(***************************************************************************)

Returned(type) == IsCryUpdateStep /\ cry_events'[Len(cry_events')].type = type

ClosedBy(i) ==
    /\ cry_table[i].end_time = None
    /\ cry_table'[i].end_time # None

\* C32: each cry_stop closes exactly one record of cry_events, the most
\* recently opened one without an end, setting its end time and duration;
\* no other call closes a record, a closed record is never modified again,
\* and from an empty store at most one record is open at any time.
C32_StopClosesLatestOpenRecord ==
    [][IsCryUpdateStep =>
        /\ Returned("cry_stop") =>
               \E i \in 1..Len(cry_table) :
                   /\ ClosedBy(i)
                   /\ \A j \in 1..Len(cry_table) :
                          /\ ClosedBy(j) => j = i
                          /\ cry_table[j].end_time = None =>
                                 cry_table[j].start_time <= cry_table[i].start_time
                   /\ cry_table'[i].end_time = now'
                   /\ cry_table'[i].duration_seconds = cry_events'[Len(cry_events')].value
                   /\ cry_table'[i].duration_seconds # None
                   /\ cry_table' = [cry_table EXCEPT
                                       ![i].end_time = cry_table'[i].end_time,
                                       ![i].duration_seconds = cry_table'[i].duration_seconds]
        /\ ~Returned("cry_stop") => \A i \in 1..Len(cry_table) : ~ClosedBy(i)
        /\ \A i \in 1..Len(cry_table) :
               cry_table[i].end_time # None => cry_table'[i] = cry_table[i]
        /\ Cardinality(OpenRows(cry_table')) <= 1
      ]_vars

\* Two cries have started and stopped: the store holds two closed records,
\* the second closed after the first.
C32_Witness ==
    /\ Len(cry_table) = 2
    /\ OpenRows(cry_table) = {}
    /\ cry_table[1].end_time < cry_table[2].start_time
    /\ cry_table[2].end_time = now
    /\ ~is_crying

\* C33: the intensity recorded when a cry record opens depends only on the
\* confidence of the classification that opened it: screaming above 0.85,
\* crying above 0.7 and up to 0.85, fussing otherwise; exactly 0.85 is crying
\* and exactly 0.7 is fussing.
C33_IntensityFromOpeningConfidence ==
    [][Returned("cry_start") =>
          LET confidence == cry_events'[Len(cry_events')].value
              intensity  == cry_table'[Len(cry_table')].intensity
          IN  /\ Len(cry_table') = Len(cry_table) + 1
              /\ cry_table'[Len(cry_table')].end_time = None
              /\ confidence > 85 => intensity = "screaming"
              /\ (70 < confidence /\ confidence <= 85) => intensity = "crying"
              /\ confidence <= 70 => intensity = "fussing"
              /\ confidence = 85 => intensity = "crying"
              /\ confidence = 70 => intensity = "fussing"
      ]_vars

\* A cry was opened by a classification of exactly 0.85 and recorded as
\* crying.
C33_Witness ==
    /\ Len(cry_table) = 1
    /\ cry_table[1].intensity = "crying"
    /\ \E i \in 1..Len(cry_events) :
           cry_events[i] = CryEventOf("cry_start", 85)
IsEmitted(e) == e.type # "none"

Emitted(events) == SelectSeq(events, IsEmitted)

\* C35: over any sequence of update calls the events returned alternate
\* cry_start, cry_stop, cry_start, ... beginning with cry_start; is_crying is
\* true exactly after a cry_start that no cry_stop has followed, and then
\* cry_start_time is set, so the duration returned with cry_stop is the time
\* since that start.
C35_EventsAlternate ==
    [][IsCryUpdateStep =>
          LET em == Emitted(cry_events')
          IN  /\ \A i \in 1..Len(em) :
                     em[i].type = (IF i % 2 = 1 THEN "cry_start" ELSE "cry_stop")
              /\ is_crying' <=> (Len(em) % 2 = 1)
              /\ is_crying' => cry_start_time' # None
              /\ Returned("cry_stop") =>
                     /\ cry_start_time # None
                     /\ cry_events'[Len(cry_events')].value = now' - cry_start_time
                     /\ cry_events'[Len(cry_events')].value >= 0
      ]_vars

\* A cry started, stopped, and a second cry has started.
C35_Witness ==
    /\ Len(Emitted(cry_events)) = 3
    /\ is_crying
    /\ cry_start_time = now
(***************************************************************************)
(* Properties of the aggregate a reader is given                           *)
(***************************************************************************)

\* C34: get_awake_probability returns a value between 0 and 1 inclusive for
\* every content the aggregate vote window can have.
C34_AwakeProbabilityBetween0And1 ==
    /\ 0 <= get_awake_probability(awake_q)[1]
    /\ get_awake_probability(awake_q)[1] <= get_awake_probability(awake_q)[2]
(***************************************************************************)
(* Properties of the logged state and the event log                        *)
(***************************************************************************)

\* C36: is_awake always equals the state of the SleepEvent logged last (and
\* is asleep when none has been logged), and two successive SleepEvents
\* always have different states.
C36_LoggedStateIsLastEvent ==
    /\ is_awake = (sleep_events # << >>
                     /\ sleep_events[Len(sleep_events)].state = "awake")
    /\ \A i \in 1..(Len(sleep_events) - 1) :
           sleep_events[i].state # sleep_events[i + 1].state

\* Awake, asleep and awake again have been logged, each transition one
\* transition debounce after the other.
C36_Witness ==
    /\ Len(sleep_events) = 3
    /\ sleep_events[3].state = "awake"
    /\ sleep_events[3].time = now
    /\ is_awake
(***************************************************************************)
(* Properties of a transition the event debounce drops                     *)
(***************************************************************************)

EventMethod == "_write_wakeness_event"

\* The last cycle called _write_wakeness_event and its debounce dropped the
\* call.
Dropped == EventMethod \in sd_called /\ EventMethod \notin sd_ran

\* The aggregate is on the side of the threshold is_awake is not.
Pending == AtLeastThreshold(awake_q) # is_awake

\* The event interval ends while frames are still followed.
EndsInTime == debounce_t[EventMethod] + DEBOUNCE_WAKE_EVENT <= MaxFairClock

\* C37: a transition the event debounce drops is not lost: the dropped call
\* leaves the logged state, the event log and the event timer as they were;
\* an evaluation made once the event interval has elapsed, with the aggregate
\* still on the other side, logs the transition; and so, while frames keep
\* being processed, a dropped transition is eventually logged unless the
\* aggregate comes back to the side of the logged state.
C37_DroppedTransitionIsLoggedLater ==
    /\ [][IsFrameStep /\ EventMethod \in sd_called' /\ EventMethod \notin sd_ran' =>
              /\ is_awake' = is_awake
              /\ sleep_events' = sleep_events
              /\ debounce_t'[EventMethod] = debounce_t[EventMethod]
         ]_vars
    /\ [][/\ StatusRuns
          /\ AtLeastThreshold(awake_q') # is_awake
          /\ debounce_t[EventMethod] # None
          /\ now' - debounce_t[EventMethod] >= DEBOUNCE_WAKE_EVENT
          => /\ Len(sleep_events') = Len(sleep_events) + 1
             /\ is_awake' # is_awake
         ]_vars
    /\ \A b \in BOOLEAN :
           (Dropped /\ Pending /\ EndsInTime /\ is_awake = b)
               ~> (is_awake # b \/ ~Pending)

\* The transition to asleep has just been dropped, half an event interval
\* after awake was logged.
C37_Witness ==
    /\ Dropped
    /\ Pending
    /\ EndsInTime
    /\ is_awake
    /\ Len(sleep_events) = 1
    /\ now - sleep_events[1].time = 90
(***************************************************************************)
(* Properties of the diaper reminder loop                                  *)
(***************************************************************************)

IsReminderNotifyStep == rem_pc \in {"notify", "notify late"} /\ rem_pc' = "sleep"

DiaperCalls == {i \in 1..Len(notify_calls) : notify_calls[i].event_type = "diaper_reminder"}

\* C38: in diaper_reminder_loop with the default cooldown and poll sleep, a
\* reminder returned by check_reminder_needed is never suppressed by the
\* dispatcher's cooldown: whenever the tracker updates last_reminder_time the
\* loop calls notify next, and that call passes the cooldown check and
\* stamps the dispatcher's cooldown for diaper_reminder.
C38_ReminderNeverSuppressed ==
    [][/\ rem_pc = "check" /\ last_reminder_time' # last_reminder_time =>
              rem_pc' = "notify"
       /\ IsReminderNotifyStep =>
              /\ Len(notify_calls') = Len(notify_calls) + 1
              /\ notify_calls'[Len(notify_calls')].event_type = "diaper_reminder"
              /\ ~notify_calls'[Len(notify_calls')].suppressed
              /\ cooldowns'["diaper_reminder"] = now'
      ]_vars

\* Two reminders have gone through the dispatcher exactly one cooldown
\* apart: the first a second after the tracker's stamp, the second right at
\* its own.
C38_Witness ==
    \E i \in DiaperCalls : \E j \in DiaperCalls :
        /\ notify_calls[j].at - notify_calls[i].at = NOTIFICATION_COOLDOWN_SECONDS
        /\ ~notify_calls[i].suppressed
        /\ ~notify_calls[j].suppressed
        /\ rem_pc = "sleep"
(***************************************************************************)
(* Properties of the detection cycle                                       *)
(***************************************************************************)

IsCycleStep == cycles' = cycles + 1

\* C39: while no focus region is set, a detection cycle only forwards the
\* frame to cropped_raw_frame_q: the aggregate vote window, the eye and
\* movement windows, the logged sleep state and the event log are unchanged
\* by it, and so are the debounce timers and the reasons.
C39_NoFocusRegionNoDetection ==
    [][IsCycleStep /\ ~focus_set =>
        /\ cropped_q' = DequeAppend(cropped_q, cycles', CROPPED_RAW_FRAME_Q_SIZE)
        /\ awake_q' = awake_q
        /\ eyes_open_q' = eyes_open_q
        /\ movement_q' = movement_q
        /\ is_awake' = is_awake
        /\ sleep_events' = sleep_events
        /\ debounce_t' = debounce_t
        /\ vote_reasons' = vote_reasons
        /\ frames' = frames
      ]_vars

\* A first cycle ran the detection and logged awake; the focus region was
\* reset and the second cycle only forwarded its frame.
C39_Witness ==
    /\ ~focus_set
    /\ cycles = 2
    /\ frames = 1
    /\ cropped_q = <<1, 2>>
    /\ Len(sleep_events) = 1
    /\ now > sleep_events[1].time
(***************************************************************************)
(* Properties of the windows the means are taken over                      *)
(***************************************************************************)

EyeVoteInReasons ==
    \E i \in 1..Len(vote_reasons') : vote_reasons'[i] \in {"Eyes Open", "Eyes Closed"}

\* C40: the aggregate vote window is never empty, its length stays between 1
\* and AWAKE_Q_SIZE after every cycle; the eye vote is cast only over an eye
\* window that holds a sample, and the status evaluation and the logged
\* confidence divide by the length of a window that holds one, so no step
\* divides by zero.
C40_NoMeanOverEmptyWindow ==
    [][IsFrameStep =>
        /\ 1 <= Len(awake_q) /\ Len(awake_q) <= AWAKE_Q_SIZE
        /\ 1 <= Len(awake_q') /\ Len(awake_q') <= AWAKE_Q_SIZE
        /\ Len(awake_q') >= Len(awake_q)
        /\ EyeVoteInReasons => Len(eyes_open_q') >= 1
        /\ Len(eyes_open_q') = 0 => ~EyeVoteInReasons
        /\ Len(sleep_events') > Len(sleep_events) =>
               sleep_events'[Len(sleep_events')].confidence[2] >= 1
      ]_vars

\* The one sample of the eye window was dropped by a cycle without a face;
\* the eye vote ran that cycle, found the window empty and cast nothing.
C40_Witness ==
    /\ eyes_open_q = << >>
    /\ frames = 2
    /\ "_throttled_handle_no_eyes" \in sd_ran
    /\ "_awake_voting_logic" \in sd_ran
    /\ vote_reasons = << >>
    /\ Len(awake_q) = 2

====
